---------------------------- MODULE Spec2Model ----------------------------
(***************************************************************************)
(* A model of the go-bitflow pipeline runtime: the parallel sample stream  *)
(* (sample/transport.go), the fork fan-out and sub-pipeline cache (fork),  *)
(* the linear processor chain (bitflow/sample_processor.go) and the CSV    *)
(* marshaller.  Every subsystem has its own specification over its own     *)
(* variables; the variables of the other subsystems stay at their initial  *)
(* values.                                                                 *)
(***************************************************************************)
EXTENDS Integers, Sequences, FiniteSets, TLC

VARIABLES
    \* ---- parallel sample stream (sample/transport.go) ----
    err,        \* ParallelSampleStream.err: "nil", "EOF" or an error
    incoming,   \* ParallelSampleStream.incoming: channel of sample ids
    outgoing,   \* ParallelSampleStream.outgoing: channel of sample ids
    closedIn,   \* the incoming channel has been closed
    closedOut,  \* the outgoing channel has been closed
    done,       \* BufferedSample.done, per sample
    lockOf,     \* BufferedSample.doneCond.L, per sample: its holder or "free"
    rpc,        \* reader: position
    rnext,      \* reader: id of the sample it is producing
    wpc,        \* worker: position
    wcur,       \* worker: sample it holds (0: none)
    cpc,        \* consumer: position (inside WaitDone: "wd_...")
    ccur,       \* consumer: sample it holds (0: none)
    cret,       \* consumer: what its last WaitDone call returned
    errAtCall,  \* consumer: HasError() at the time its WaitDone call started
    emitted,    \* the samples the consumer has written, in order
    doneOrder,  \* the samples in the order of their NotifyDone calls
    \* ---- fork (SampleFork, sinkMultiplexer) ----
    pipelines,  \* SampleFork.pipelines: cache key -> subpipelineStart
    forkLock,   \* SampleFork.lock: its holder or "free"
    initCount,  \* per template: calls of initializePipeline so far
    reuseLogged, \* getPipeline has logged the reuse of a pipeline under another key
    fpc,        \* per goroutine calling SampleFork.Sample: position
    subpipes,   \* per goroutine: the sub-pipelines Distribute returned that
                \* getSubpipelineSink has yet to look up
    requested,  \* per goroutine: the templates looked up so far, in order
    sinks,      \* per goroutine: the first steps collected by getSubpipelineSink
    fresults,   \* per goroutine: what each sink.Sample call returned, in order
    fret,       \* per goroutine: what its last SampleFork.Sample call returned
    store,      \* the heap: reference of a value vector or tag map -> content
    delivered,  \* per goroutine: the samples its call handed to sub-pipelines
    \* ---- linear pipeline (bitflow/sample_processor.go, AbstractMetricSource) ----
    stages,     \* the kinds of the processors P1..Pn, in pipeline order
    seen,       \* per stage (n+1: the terminal sink): the samples passed to its Sample
    lastErr,    \* what the source's last Sample call returned
    srcNext,    \* id of the next sample of the source
    srcState,   \* "running", "closing" (inside CloseSink(nil)), "stopped"
    closing,    \* the stage whose Close is being invoked next (0: none)
    closeLog,   \* the events of the Close calls so far, in order
    wgCount,    \* the sync.WaitGroup handed to CloseSink: its counter
    OutputFile, \* PlotProcessor.OutputFile of the plot stages ("": not configured)
    \* ---- CSV marshaller (CsvMarshaller) ----
    csvHeader,  \* the Header handed to WriteHeader / WriteSample / ReadSample
    csvSample,  \* the Sample handed to WriteSample
    wire,       \* the bytes between the writer and the bufio.Reader: unread input
    lineKind,   \* what was written to the wire: "none", "header" or "sample"
    wasCut,     \* the input ended before the whole line had arrived
    rdInput,    \* the unread input when the last Read call started
    rd,         \* what the last ReadHeader / ReadSample call returned
    \* ---- nested forks, samples passed one after another ----
    nImpl,      \* the fork type: "SampleFork" or "AbstractMetricFork"
    nRemap,     \* a ForkRemapper is the outgoing sink of the outermost fork
    nNonfatal,  \* NonfatalErrors
    nStatus,    \* "running", "stopped" (the fork was stopped) or "panicked"
    nCache,     \* per fork: pipelines, cache key -> [key, pipe, firstStep]
    nPathRef,   \* per fork: the slice ForkPath refers to (0: nil)
    nHeap,      \* the slices allocated so far: reference -> list of keys
    nPipe,      \* per template: its SamplePipeline [Processors, Sink, started]
    nReceived,  \* per template: the samples handed to its first step, in order
    nMerged,    \* per fork: samples its merger has passed to the outgoing sink
    nSelected,  \* per fork: sub-pipelines its distributor has selected so far
    nMapped,    \* the sinks designated by the ForkRemapper that got a sample
    nLost,      \* a sample reached a step without a sink
    nLastDist,  \* what the outermost fork's distributor returned last
    nServed,    \* the sub-pipelines the outermost fork served in its last call
    nFailed,    \* the sub-pipelines that have terminated with an error
    nNext,      \* id of the next sample for the outermost fork
    \* ---- task group (golib.TaskGroup running a SamplePipeline) ----
    gMembers,   \* the tasks registered with the group
    gState,     \* per task: "init", "running" or "stopped" (stop channel closed)
    gErr,       \* per task: the error of its stop channel, "nil" or "error"
    gBindFailed, \* the source's Start could not bind its endpoint
    gpc,        \* WaitAndStop: "run" (start, then select), "stopping", "done"
    gStopper,   \* the task WaitAndStop reports as the one that stopped the group
    gNumErrs,   \* the number of errors WaitAndStop returned
    gExit,      \* the exit code of the process (-1: still running)
    \* ---- TCPListenerSink serving TCPSource readers ----
    BufferedSamples, \* TCPListenerSink.BufferedSamples: buffer of a connection
    tConn,      \* per reader: "idle", "connected", "dropped" (by the sink), "closed"
    tJoin,      \* per reader: number of samples sent before it connected
    tBuf,       \* per reader: the samples buffered for its connection
    tGot,       \* per reader: the samples passed to the processor behind it
    tSent,      \* number of samples passed to the sink's Sample so far
    tSinkClosed, \* Close was called on the sink
    tErrs,      \* connections that ended abnormally
    \* ---- AST lowering (query.Pipeline.Transform) ----
    astIn,      \* the parsed Pipeline handed to Transform
    astRej,     \* the names the PipelineVerification hook rejects
    astOut,     \* what Transform returned: [res, err, log], log being the calls
                \* made to the hook in order; NotLowered before the call
    \* ---- script parser (script_go.Parser) ----
    psIn,       \* the script, as the tree of its brackets and "->" segments
    psOut,      \* what Parse returned: [res, err, done]; NotParsed before the call
    tkIn,       \* the script as the lexer's tokens (their types; a token's
                \* literal and offsets are given by its place)
    tkOut,      \* what Parse returned for tkIn: [res, err, done]
    \* ---- one Sample call on one processor or sink ----
    eKind,      \* the processor or sink whose Sample is called
    eFlags,     \* its configuration: the flags that are set
    eOut,       \* the call: what its own step and its sinks did, what it
                \* returned and logged; NotCalled before the call
    \* ---- SpherePoints and the strip step, fed by one source ----
    spKind,     \* "sphere" or "strip"
    spConf,     \* SpherePoints: [RadiusMetric, Radius, NumPoints]
    spFields,   \* Fields of the header the source passes with every sample
    spSent,     \* number of samples the source has passed so far
    spCall,     \* the last Sample call: the header's fields before it, the
                \* values handed in, the error returned and the samples
                \* passed to the sink as [fields, values, radius]
    \* ---- the head step ----
    hdNum,      \* the parameter num
    hdProcessed,\* the counter processed of the Process function
    hdIn,       \* the samples passed to the processor so far
    hdOut,      \* the samples passed on to the sink so far
    hdRet,      \* what Sample returned for each sample of hdIn
    \* ---- one call of AbstractMetricSource.CloseSink(wg) ----
    csSink,     \* s.OutgoingSink != nil
    csWg,       \* wg != nil
    csPc,       \* where the caller of CloseSink is
    csCount,    \* the counter of wg
    csOthers,   \* other tasks registered with wg that have not called Done
    csGo,       \* the goroutine of CloseSink: "none", "ready", "closing", "done"
    csClose,    \* the sink's Close: "no", "running", "returned"
    csLeft,     \* steps the sink's Close still takes
    csWait,     \* a caller of wg.Wait(): "none", "waiting", "returned"
    csWaitAfter,\* that Wait was started after CloseSink had returned
    \* ---- one BufferedSample with several callers of WaitDone / NotifyDone ----
    bsErr,      \* stream.err of the sample's stream
    bsDone,     \* sample.done
    bsLock,     \* sample.doneCond.L: 0 when free, else the caller holding it
    bsPc,       \* per caller: where it is in its call
    bsRet,      \* per caller of WaitDone: what the call returned ("none": not yet)
    bsHow,      \* per caller of WaitDone: "early" when it called before done
                \* was set, "late" when after, "none" before the call
    bsSet       \* how many NotifyDone calls have written done

streamVars == <<err, incoming, outgoing, closedIn, closedOut, done, lockOf,
                rpc, rnext, wpc, wcur, cpc, ccur, cret, errAtCall, emitted,
                doneOrder>>

forkVars == <<pipelines, forkLock, initCount, reuseLogged, fpc, subpipes, requested, sinks,
              fresults, fret, store, delivered>>

pipeVars == <<stages, seen, lastErr, srcNext, srcState, closing, closeLog, wgCount,
             OutputFile>>

csvVars == <<csvHeader, csvSample, wire, lineKind, wasCut, rdInput, rd>>

nestVars == <<nImpl, nRemap, nNonfatal, nStatus, nCache, nPathRef, nHeap, nPipe,
              nReceived, nMerged, nSelected, nMapped, nLost, nLastDist, nServed,
              nFailed, nNext>>

groupVars == <<gMembers, gState, gErr, gBindFailed, gpc, gStopper, gNumErrs, gExit>>

tcpVars == <<BufferedSamples, tConn, tJoin, tBuf, tGot, tSent, tSinkClosed, tErrs>>

astVars == <<astIn, astRej, astOut>>

parseVars == <<psIn, psOut, tkIn, tkOut>>

errVars == <<eKind, eFlags, eOut>>

\* The subsystems added to the task group, the TCP sink, the lowering and
\* the parser.
sphereVars == <<spKind, spConf, spFields, spSent, spCall>>

headVars == <<hdNum, hdProcessed, hdIn, hdOut, hdRet>>

closeVars == <<csSink, csWg, csPc, csCount, csOthers, csGo, csClose, csLeft, csWait,
               csWaitAfter>>

bsVars == <<bsErr, bsDone, bsLock, bsPc, bsRet, bsHow, bsSet>>

stepVars == <<errVars, sphereVars, headVars, closeVars, bsVars>>

vars == <<streamVars, forkVars, pipeVars, csvVars, nestVars, groupVars, tcpVars, astVars,
          parseVars, stepVars>>

nonStreamVars == <<forkVars, pipeVars, csvVars, nestVars, groupVars, tcpVars, astVars,
    parseVars, stepVars>>
nonForkVars == <<streamVars, pipeVars, csvVars, nestVars, groupVars, tcpVars, astVars,
    parseVars, stepVars>>
nonPipeVars == <<streamVars, forkVars, csvVars, nestVars, groupVars, tcpVars, astVars,
    parseVars, stepVars>>
nonCsvVars == <<streamVars, forkVars, pipeVars, nestVars, groupVars, tcpVars, astVars,
    parseVars, stepVars>>
nonNestVars == <<streamVars, forkVars, pipeVars, csvVars, groupVars, tcpVars, astVars,
    parseVars, stepVars>>
nonGroupVars == <<streamVars, forkVars, pipeVars, csvVars, nestVars, tcpVars, astVars,
    parseVars, stepVars>>
nonTcpVars == <<streamVars, forkVars, pipeVars, csvVars, nestVars, groupVars, astVars,
    parseVars, stepVars>>
nonAstVars == <<streamVars, forkVars, pipeVars, csvVars, nestVars, groupVars, tcpVars,
    parseVars, stepVars>>
nonParseVars == <<streamVars, forkVars, pipeVars, csvVars, nestVars, groupVars, tcpVars,
    astVars, stepVars>>
coreVars == <<streamVars, forkVars, pipeVars, csvVars, nestVars, groupVars, tcpVars,
    astVars, parseVars>>

-----------------------------------------------------------------------------
(* Bounds *)

NumSamples == 3
NumWorkers == 2
ChanCap == 2

MaxSubpipes == 2
MaxStages == 2
MaxPipeSamples == 3
MaxFields == 2        \* metric columns of a header, values of a sample
MaxCut == 3           \* bytes a line can lose at its end
MaxForkSamples == 2   \* samples passed to the outermost of the nested forks
MaxTcpSamples == 3    \* samples sent into the TCP listener sink
MaxBranches == 2      \* sub-pipelines of a fork, multiplex group or multi-input

SampleIds == 1..NumSamples
Workers == 1..NumWorkers

-----------------------------------------------------------------------------
(* Parallel sample stream *)

\* ParallelSampleStream.HasError
HasErrorValue(e) == e # "nil" /\ e # "EOF"

HasError == HasErrorValue(err)

StreamInit ==
    /\ err = "nil"
    /\ incoming = <<>>
    /\ outgoing = <<>>
    /\ closedIn = FALSE
    /\ closedOut = FALSE
    /\ done = [s \in SampleIds |-> FALSE]
    /\ lockOf = [s \in SampleIds |-> "free"]
    /\ rpc = "out"
    /\ rnext = 1
    /\ wpc = [w \in Workers |-> "idle"]
    /\ wcur = [w \in Workers |-> 0]
    /\ cpc = "idle"
    /\ ccur = 0
    /\ cret = "none"
    /\ errAtCall = FALSE
    /\ emitted = <<>>
    /\ doneOrder = <<>>

\* ---- reader/producer (4.C of the specification; its code is not in src/) ----

\* The reader hands the next BufferedSample to the consumer's queue first ...
ReaderPushOut ==
    /\ rpc = "out"
    /\ rnext <= NumSamples
    /\ ~HasError
    /\ ~closedOut
    /\ Len(outgoing) < ChanCap
    /\ outgoing' = Append(outgoing, rnext)
    /\ rpc' = "in"
    /\ UNCHANGED <<err, incoming, closedIn, closedOut, done, lockOf, rnext,
                   wpc, wcur, cpc, ccur, cret, errAtCall, emitted, doneOrder>>
    /\ UNCHANGED nonStreamVars

\* ... and then to the workers.
ReaderPushIn ==
    /\ rpc = "in"
    /\ Len(incoming) < ChanCap
    /\ incoming' = Append(incoming, rnext)
    /\ rnext' = rnext + 1
    /\ rpc' = "out"
    /\ UNCHANGED <<err, outgoing, closedIn, closedOut, done, lockOf,
                   wpc, wcur, cpc, ccur, cret, errAtCall, emitted, doneOrder>>
    /\ UNCHANGED nonStreamVars

\* The reader stops: its input is exhausted (err becomes io.EOF unless an error
\* is already set), the stream has an error, or the stream is closed from
\* outside.  It closes both channels.
ReaderStop ==
    /\ rpc = "out"
    /\ err' = IF rnext > NumSamples /\ err = "nil" THEN "EOF" ELSE err
    /\ closedIn' = TRUE
    /\ closedOut' = TRUE
    /\ rpc' = "stopped"
    /\ UNCHANGED <<incoming, outgoing, done, lockOf, rnext,
                   wpc, wcur, cpc, ccur, cret, errAtCall, emitted, doneOrder>>
    /\ UNCHANGED nonStreamVars

\* ---- workers (4.C of the specification; their loop is not in src/) ----

WorkerTake(w) ==
    /\ wpc[w] = "idle"
    /\ incoming # <<>>
    /\ wcur' = [wcur EXCEPT ![w] = Head(incoming)]
    /\ incoming' = Tail(incoming)
    /\ wpc' = [wpc EXCEPT ![w] = "work"]
    /\ UNCHANGED <<err, outgoing, closedIn, closedOut, done, lockOf, rpc, rnext,
                   cpc, ccur, cret, errAtCall, emitted, doneOrder>>
    /\ UNCHANGED nonStreamVars

WorkerExit(w) ==
    /\ wpc[w] = "idle"
    /\ incoming = <<>>
    /\ closedIn
    /\ wpc' = [wpc EXCEPT ![w] = "exit"]
    /\ UNCHANGED <<err, incoming, outgoing, closedIn, closedOut, done, lockOf,
                   rpc, rnext, wcur, cpc, ccur, cret, errAtCall, emitted, doneOrder>>
    /\ UNCHANGED nonStreamVars

\* The expensive step (parse or format) of one sample: it succeeds, or it fails
\* and sets the stream's error.  Either way the worker goes on to NotifyDone.
WorkerStep(w, ok) ==
    /\ wpc[w] = "work"
    /\ err' = IF ~HasError /\ ~ok THEN "E1" ELSE err
    /\ wpc' = [wpc EXCEPT ![w] = "nd_lock"]
    /\ UNCHANGED <<incoming, outgoing, closedIn, closedOut, done, lockOf,
                   rpc, rnext, wcur, cpc, ccur, cret, errAtCall, emitted, doneOrder>>
    /\ UNCHANGED nonStreamVars

\* BufferedSample.NotifyDone, line 181: sample.doneCond.L.Lock()
NotifyDoneLock(w) ==
    /\ wpc[w] = "nd_lock"
    /\ lockOf[wcur[w]] = "free"
    /\ lockOf' = [lockOf EXCEPT ![wcur[w]] = "worker"]
    /\ wpc' = [wpc EXCEPT ![w] = "nd_set"]
    /\ UNCHANGED <<err, incoming, outgoing, closedIn, closedOut, done,
                   rpc, rnext, wcur, cpc, ccur, cret, errAtCall, emitted, doneOrder>>
    /\ UNCHANGED nonStreamVars

Broadcast_Lost(pc, waitingOn, s) == pc

\* doneCond.Broadcast(), line 184, on sample s: a caller parked in
\* doneCond.Wait() of that sample becomes runnable; pc is the consumer's
\* position and waitingOn the sample of its WaitDone call.
Broadcast(pc, waitingOn, s) ==
    IF pc = "wd_parked" /\ waitingOn = s THEN "wd_woken" ELSE pc

\* BufferedSample.NotifyDone, lines 182-184: done = true, Broadcast() wakes the
\* callers parked in doneCond.Wait() on this sample, deferred Unlock().
NotifyDone(w) ==
    /\ wpc[w] = "nd_set"
    /\ done' = [done EXCEPT ![wcur[w]] = TRUE]
    /\ doneOrder' = Append(doneOrder, wcur[w])
    /\ cpc' = Broadcast(cpc, ccur, wcur[w])
    /\ lockOf' = [lockOf EXCEPT ![wcur[w]] = "free"]
    /\ wpc' = [wpc EXCEPT ![w] = "idle"]
    /\ wcur' = [wcur EXCEPT ![w] = 0]
    /\ UNCHANGED <<err, incoming, outgoing, closedIn, closedOut,
                   rpc, rnext, ccur, cret, errAtCall, emitted>>
    /\ UNCHANGED nonStreamVars

\* ---- consumer (4.C of the specification) calling BufferedSample.WaitDone ----

ConsumerTake ==
    /\ cpc = "idle"
    /\ outgoing # <<>>
    /\ ccur' = Head(outgoing)
    /\ outgoing' = Tail(outgoing)
    /\ errAtCall' = HasError
    /\ cpc' = "wd_check"
    /\ UNCHANGED <<err, incoming, closedIn, closedOut, done, lockOf, rpc, rnext,
                   wpc, wcur, cret, emitted, doneOrder>>
    /\ UNCHANGED nonStreamVars

ConsumerExit ==
    /\ cpc = "idle"
    /\ outgoing = <<>>
    /\ closedOut
    /\ cpc' = "exit"
    /\ UNCHANGED <<err, incoming, outgoing, closedIn, closedOut, done, lockOf,
                   rpc, rnext, wpc, wcur, ccur, cret, errAtCall, emitted, doneOrder>>
    /\ UNCHANGED nonStreamVars

\* WaitDone, lines 166-168: with an error set, return it without locking.
WaitDoneCheck ==
    /\ cpc = "wd_check"
    /\ IF HasError
         THEN cret' = err /\ cpc' = "returned"
         ELSE cret' = cret /\ cpc' = "wd_lock"
    /\ UNCHANGED <<err, incoming, outgoing, closedIn, closedOut, done, lockOf,
                   rpc, rnext, wpc, wcur, ccur, errAtCall, emitted, doneOrder>>
    /\ UNCHANGED nonStreamVars

\* WaitDone, line 169: sample.doneCond.L.Lock()
WaitDoneLock ==
    /\ cpc = "wd_lock"
    /\ lockOf[ccur] = "free"
    /\ lockOf' = [lockOf EXCEPT ![ccur] = "consumer"]
    /\ cpc' = "wd_loop"
    /\ UNCHANGED <<err, incoming, outgoing, closedIn, closedOut, done,
                   rpc, rnext, wpc, wcur, ccur, cret, errAtCall, emitted, doneOrder>>
    /\ UNCHANGED nonStreamVars

WaitDoneMustWait_NoWait(d, e) == FALSE

\* WaitDone, line 171: the loop condition !sample.done && !sample.stream.HasError()
WaitDoneMustWait(d, e) == ~d /\ ~HasErrorValue(e)

\* WaitDone, lines 171-172: test the loop condition; doneCond.Wait() releases
\* the lock and parks the caller until a Broadcast.
WaitDoneLoop ==
    /\ cpc = "wd_loop"
    /\ IF WaitDoneMustWait(done[ccur], err)
         THEN /\ lockOf' = [lockOf EXCEPT ![ccur] = "free"]
              /\ cpc' = "wd_parked"
         ELSE /\ lockOf' = lockOf
              /\ cpc' = "wd_final"
    /\ UNCHANGED <<err, incoming, outgoing, closedIn, closedOut, done,
                   rpc, rnext, wpc, wcur, ccur, cret, errAtCall, emitted, doneOrder>>
    /\ UNCHANGED nonStreamVars

\* doneCond.Wait() returning after a Broadcast: it takes the lock again.
WaitDoneWake ==
    /\ cpc = "wd_woken"
    /\ lockOf[ccur] = "free"
    /\ lockOf' = [lockOf EXCEPT ![ccur] = "consumer"]
    /\ cpc' = "wd_loop"
    /\ UNCHANGED <<err, incoming, outgoing, closedIn, closedOut, done,
                   rpc, rnext, wpc, wcur, ccur, cret, errAtCall, emitted, doneOrder>>
    /\ UNCHANGED nonStreamVars

\* WaitDone, lines 174-177 and the deferred Unlock of line 170.
WaitDoneFinal ==
    /\ cpc = "wd_final"
    /\ cret' = IF HasError THEN err ELSE "nil"
    /\ lockOf' = [lockOf EXCEPT ![ccur] = "free"]
    /\ cpc' = "returned"
    /\ UNCHANGED <<err, incoming, outgoing, closedIn, closedOut, done,
                   rpc, rnext, wpc, wcur, ccur, errAtCall, emitted, doneOrder>>
    /\ UNCHANGED nonStreamVars

\* The consumer writes the sample when WaitDone returned nil and stops pulling
\* when it returned the stream's error.
ConsumerEmit ==
    /\ cpc = "returned"
    /\ IF cret = "nil"
         THEN emitted' = Append(emitted, ccur) /\ cpc' = "idle"
         ELSE emitted' = emitted /\ cpc' = "exit"
    /\ UNCHANGED <<err, incoming, outgoing, closedIn, closedOut, done, lockOf,
                   rpc, rnext, wpc, wcur, ccur, cret, errAtCall, doneOrder>>
    /\ UNCHANGED nonStreamVars

StreamNext ==
    \/ ReaderPushOut
    \/ ReaderPushIn
    \/ ReaderStop
    \/ \E w \in Workers : WorkerTake(w)
    \/ \E w \in Workers : WorkerExit(w)
    \/ \E w \in Workers, ok \in BOOLEAN : WorkerStep(w, ok)
    \/ \E w \in Workers : NotifyDoneLock(w)
    \/ \E w \in Workers : NotifyDone(w)
    \/ ConsumerTake
    \/ ConsumerExit
    \/ WaitDoneCheck
    \/ WaitDoneLock
    \/ WaitDoneLoop
    \/ WaitDoneWake
    \/ WaitDoneFinal
    \/ ConsumerEmit

-----------------------------------------------------------------------------
(* Fork: SampleFork, its sub-pipeline cache and the sinkMultiplexer fan-out *)

Templates == {"tA", "tB"}      \* *pipeline.SamplePipeline templates of the distributor
Callers == {"g1", "g2"}        \* goroutines calling SampleFork.Sample

\* type Subpipeline struct { Pipe; Key }: the distributor knows template tA
\* under two keys and template tB under one.
Subpipeline == {[Pipe |-> "tA", Key |-> "k1"], [Pipe |-> "tA", Key |-> "k2"],
                [Pipe |-> "tB", Key |-> "k1"]}

RECURSIVE SeqsUpTo(_, _)
SeqsUpTo(S, n) ==
    IF n = 0 THEN {<<>>}
    ELSE LET shorter == SeqsUpTo(S, n - 1)
         IN  shorter \cup {Append(q, x) : q \in {r \in shorter : Len(r) = n - 1}, x \in S}

\* What ForkDistributor.Distribute may return: any list of sub-pipelines.
Distributions == SeqsUpTo(Subpipeline, MaxSubpipes)

\* A sample is the pair of references to its value vector and its tag map.
\* Every goroutine has one sample in flight: the one it passed to the fork.
OrigSample(c) == [vals |-> <<"vals", c, 0>>, tags |-> <<"tags", c, 0>>]

\* Sample.DeepClone: a new value vector and a new tag map, both copied.
DeepClone(s, c, j) == [vals |-> <<"vals", c, j>>, tags |-> <<"tags", c, j>>]

ForkInit ==
    /\ pipelines = <<>>
    /\ forkLock = "free"
    /\ initCount = [tp \in Templates |-> 0]
    /\ reuseLogged = FALSE
    /\ fpc = [c \in Callers |-> "idle"]
    /\ subpipes = [c \in Callers |-> <<>>]
    /\ sinks = [c \in Callers |-> <<>>]
    /\ requested = [c \in Callers |-> <<>>]
    /\ fresults = [c \in Callers |-> <<>>]
    /\ fret = [c \in Callers |-> <<>>]
    /\ store = <<>>
    /\ delivered = [c \in Callers |-> <<>>]

\* Writing content v at reference ref of the heap.
Put(st, ref, v) == [r \in DOMAIN st \cup {ref} |-> IF r = ref THEN v ELSE st[r]]

\* SampleFork.Sample, lines 58-62, called with a new sample: Distribute fails,
\* or returns the sub-pipelines of which getSubpipelineSink then collects the
\* first steps.
ForkSample(c, dist, distErr) ==
    /\ fpc[c] = "idle"
    /\ store' = Put(Put(store, OrigSample(c).vals, "clean"), OrigSample(c).tags, "clean")
    /\ subpipes' = [subpipes EXCEPT ![c] = IF distErr THEN <<>> ELSE dist]
    /\ fret' = [fret EXCEPT ![c] = IF distErr THEN <<"distribute">> ELSE <<>>]
    /\ fpc' = [fpc EXCEPT ![c] = IF distErr THEN "returned" ELSE "get"]
    /\ UNCHANGED <<pipelines, forkLock, initCount, reuseLogged, requested, sinks, fresults,
                   delivered>>
    /\ UNCHANGED nonForkVars

\* SampleFork.getSubpipelineSink, line 68, calling SampleFork.getPipeline for
\* the next sub-pipeline of the list; line 74: f.lock.Lock()
GetPipelineLock(c) ==
    /\ fpc[c] = "get"
    /\ subpipes[c] # <<>>
    /\ forkLock = "free"
    /\ forkLock' = c
    /\ fpc' = [fpc EXCEPT ![c] = "locked"]
    /\ UNCHANGED <<pipelines, initCount, reuseLogged, subpipes, requested, sinks, fresults,
                   fret, store, delivered>>
    /\ UNCHANGED nonForkVars

CacheKey_ByKey(subpipe) == subpipe.Key

\* SampleFork.getPipeline, line 77: the cache is indexed by subpipe.Pipe
CacheKey(subpipe) == subpipe.Pipe

\* SampleFork.getPipeline, lines 77-78: pipe, ok := f.pipelines[subpipe.Pipe]
GetPipelineLookup(c) ==
    /\ fpc[c] = "locked"
    /\ fpc' = [fpc EXCEPT ![c] =
                 IF CacheKey(Head(subpipes[c])) \in DOMAIN pipelines THEN "hit" ELSE "miss"]
    /\ UNCHANGED <<pipelines, forkLock, initCount, reuseLogged, subpipes, requested,
                   sinks, fresults, fret, store, delivered>>
    /\ UNCHANGED nonForkVars

\* SampleFork.getPipeline, lines 79-84 and 88, after a miss: initializePipeline
\* (and the optional newPipelineHandler hook) give the first step, which is
\* cached and returned; the lock is released (line 75) and getSubpipelineSink
\* stores the step in sinks[i].
GetPipelineMiss(c) ==
    /\ fpc[c] = "miss"
    /\ LET subpipe == Head(subpipes[c])
           firstStep == [tmpl |-> subpipe.Pipe, gen |-> initCount[subpipe.Pipe] + 1]
       IN  /\ initCount' = [initCount EXCEPT ![subpipe.Pipe] = @ + 1]
           /\ pipelines' = [k \in DOMAIN pipelines \cup {CacheKey(subpipe)} |->
                              IF k = CacheKey(subpipe)
                                THEN [key |-> subpipe.Key, pipe |-> subpipe.Pipe,
                                      firstStep |-> firstStep]
                                ELSE pipelines[k]]
           /\ sinks' = [sinks EXCEPT ![c] = Append(@, firstStep)]
           /\ requested' = [requested EXCEPT ![c] = Append(@, subpipe.Pipe)]
    /\ subpipes' = [subpipes EXCEPT ![c] = Tail(@)]
    /\ forkLock' = "free"
    /\ fpc' = [fpc EXCEPT ![c] = "get"]
    /\ UNCHANGED <<reuseLogged, fresults, fret, store, delivered>>
    /\ UNCHANGED nonForkVars

\* SampleFork.getPipeline, lines 85-88, after a hit: a hit under another key is
\* logged; the cached first step is returned, the lock is released (line 75)
\* and getSubpipelineSink stores the step in sinks[i].
GetPipelineHit(c) ==
    /\ fpc[c] = "hit"
    /\ LET subpipe == Head(subpipes[c])
           pipe == pipelines[CacheKey(subpipe)]
       IN  /\ reuseLogged' = (reuseLogged \/ subpipe.Key # pipe.key)
           /\ sinks' = [sinks EXCEPT ![c] = Append(@, pipe.firstStep)]
           /\ requested' = [requested EXCEPT ![c] = Append(@, subpipe.Pipe)]
    /\ subpipes' = [subpipes EXCEPT ![c] = Tail(@)]
    /\ forkLock' = "free"
    /\ fpc' = [fpc EXCEPT ![c] = "get"]
    /\ UNCHANGED <<pipelines, initCount, fresults, fret, store, delivered>>
    /\ UNCHANGED nonForkVars

\* getSubpipelineSink, line 70: all first steps are collected.
GetSubpipelineSink(c) ==
    /\ fpc[c] = "get"
    /\ subpipes[c] = <<>>
    /\ fpc' = [fpc EXCEPT ![c] = "mux"]
    /\ UNCHANGED <<pipelines, forkLock, initCount, reuseLogged, subpipes, requested, sinks,
                   fresults, fret, store, delivered>>
    /\ UNCHANGED nonForkVars

\* golib.MultiError.Add: a nil error is not recorded.
MultiErrorAdd(errors, e) == IF e = "nil" THEN errors ELSE Append(errors, e)

\* golib.MultiError.NilOrError: nil (the empty list) when nothing was added.
NilOrError(errors) == errors

MuxSample_NoClone(s, c, j) == s

\* sinkMultiplexer.Sample, line 154: every sink is handed sample.DeepClone()
MuxSample(s, c, j) == DeepClone(s, c, j)

MuxContinue_StopOnError(result) == result = "nil"

\* sinkMultiplexer.Sample, lines 149-156: the loop goes on to the next sink
\* whatever the last one returned.
MuxContinue(result) == TRUE

\* sinkMultiplexer.Sample, lines 149-156, from sink j on: the sink's Sample is
\* called synchronously with the clone; the sub-pipeline changes the values and
\* the tags of the sample it was handed, and returns nil or its error, which
\* is added to the MultiError.  acc holds the heap, the deliveries, the sinks'
\* results and the MultiError so far.
RECURSIVE MuxLoop(_, _, _, _)
MuxLoop(c, j, fails, acc) ==
    IF j > Len(sinks[c]) THEN acc
    ELSE LET orig == OrigSample(c)
             s == MuxSample(orig, c, j)
             copied == Put(Put(acc.store, s.vals, acc.store[orig.vals]),
                           s.tags, acc.store[orig.tags])
             result == IF fails[j] THEN <<"error", j>> ELSE "nil"
             next == [store |-> Put(Put(copied, s.vals, <<"dirty", j>>),
                                    s.tags, <<"dirty", j>>),
                      delivered |-> Append(acc.delivered,
                                           [step |-> sinks[c][j], j |-> j, sample |-> s,
                                            vals |-> copied[s.vals],
                                            tags |-> copied[s.tags]]),
                      results |-> Append(acc.results, result),
                      errors |-> MultiErrorAdd(acc.errors, result)]
         IN  IF MuxContinue(result) THEN MuxLoop(c, j + 1, fails, next) ELSE next

\* sinkMultiplexer.Sample, lines 146-158, called by SampleFork.Sample, line 62,
\* which returns its result.
SinkMultiplexerSample(c, fails) ==
    /\ fpc[c] = "mux"
    /\ LET out == MuxLoop(c, 1, fails, [store |-> store, delivered |-> <<>>,
                                        results |-> <<>>, errors |-> <<>>])
       IN  /\ store' = out.store
           /\ delivered' = [delivered EXCEPT ![c] = out.delivered]
           /\ fresults' = [fresults EXCEPT ![c] = out.results]
           /\ fret' = [fret EXCEPT ![c] = NilOrError(out.errors)]
    /\ fpc' = [fpc EXCEPT ![c] = "returned"]
    /\ UNCHANGED <<pipelines, forkLock, initCount, reuseLogged, subpipes, requested, sinks>>
    /\ UNCHANGED nonForkVars

\* The caller has taken the result of SampleFork.Sample; its sample and the
\* clones made of it are released.
ForkReturned(c) ==
    /\ fpc[c] = "returned"
    /\ store' = [r \in {x \in DOMAIN store : x[2] # c} |-> store[r]]
    /\ delivered' = [delivered EXCEPT ![c] = <<>>]
    /\ subpipes' = [subpipes EXCEPT ![c] = <<>>]
    /\ sinks' = [sinks EXCEPT ![c] = <<>>]
    /\ requested' = [requested EXCEPT ![c] = <<>>]
    /\ fresults' = [fresults EXCEPT ![c] = <<>>]
    /\ fret' = [fret EXCEPT ![c] = <<>>]
    /\ fpc' = [fpc EXCEPT ![c] = "idle"]
    /\ UNCHANGED <<pipelines, forkLock, initCount, reuseLogged>>
    /\ UNCHANGED nonForkVars

ForkNext ==
    \/ \E c \in Callers, dist \in Distributions : ForkSample(c, dist, FALSE)
    \/ \E c \in Callers : ForkSample(c, <<>>, TRUE)
    \/ \E c \in Callers : GetPipelineLock(c)
    \/ \E c \in Callers : GetPipelineLookup(c)
    \/ \E c \in Callers : GetPipelineMiss(c)
    \/ \E c \in Callers : GetPipelineHit(c)
    \/ \E c \in Callers : GetSubpipelineSink(c)
    \/ \E c \in Callers : \E fails \in [1..Len(sinks[c]) -> BOOLEAN] :
          SinkMultiplexerSample(c, fails)
    \/ \E c \in Callers : ForkReturned(c)

-----------------------------------------------------------------------------
(* Linear pipeline: source -> P1 -> ... -> Pn -> terminal sink *)

\* NoopProcessor, SimpleProcessor, DropErrorsProcessor, DroppingSampleProcessor
StageKinds == {"noop", "simple", "droperrors", "dropping"}

\* The pipelines considered: up to MaxStages processors of any kind.
PipelineConfigs == SeqsUpTo(StageKinds, MaxStages)

\* The terminal sink is stage n+1.
SinkIdx == Len(stages) + 1

PipeInit ==
    /\ stages = <<>>
    /\ seen = <<>>
    /\ lastErr = "nil"
    /\ srcNext = 1
    /\ srcState = "running"
    /\ closing = 0
    /\ closeLog = <<>>
    /\ wgCount = 0
    /\ OutputFile = ""

\* The same, for any pipeline (SamplePipeline.Construct has wired the stages).
PipeInitAny ==
    /\ stages \in PipelineConfigs
    /\ seen = [i \in 1..(Len(stages) + 1) |-> <<>>]
    /\ lastErr = "nil"
    /\ srcNext = 1
    /\ srcState = "running"
    /\ closing = 0
    /\ closeLog = <<>>
    /\ wgCount = 0
    /\ OutputFile = ""

\* Pipelines with a PlotProcessor among their processors; its OutputFile is
\* configured or left empty.
PlotConfigs ==
    {c \in SeqsUpTo(StageKinds \cup {"plot"}, MaxStages) :
        \E i \in 1..Len(c) : c[i] = "plot"}

PlotInit ==
    /\ stages \in PlotConfigs
    /\ seen = [i \in 1..(Len(stages) + 1) |-> <<>>]
    /\ lastErr = "nil"
    /\ srcNext = 1
    /\ srcState = "running"
    /\ closing = 0
    /\ closeLog = <<>>
    /\ wgCount = 0
    /\ OutputFile \in {"", "plot.png"}

ForwardCount_Twice(kind, choice) ==
    CASE kind = "simple" -> IF choice = "pass" THEN 2 ELSE 0
      [] kind = "dropping" -> 0
      [] OTHER -> 1

\* How often a stage's Sample passes the sample on to its sink:
\* NoopProcessor.Sample (140-142) always once; DropErrorsProcessor.Sample calls
\* NoopProcessor.Sample; SimpleProcessor.Sample (199-209) once if Process gave
\* no error and a sample; DroppingSampleProcessor.Sample (124-126) never;
\* PlotProcessor.Sample (plot.go 79-90) once unless Check or headerChanged
\* returned an error.
ForwardCount(kind, choice) ==
    CASE kind = "simple" -> IF choice = "pass" THEN 1 ELSE 0
      [] kind = "dropping" -> 0
      [] kind = "plot" -> IF choice = "err" THEN 0 ELSE 1
      [] OTHER -> 1

\* The error a stage's Sample returns, given what its sink returned (down):
\* SimpleProcessor returns the error of Process or of its sink,
\* DropErrorsProcessor always nil, NoopProcessor its sink's error,
\* PlotProcessor its own error or its sink's.
StageResult(i, kind, choice, down) ==
    CASE kind = "simple" -> IF choice = "err" THEN <<"error", i>>
                            ELSE IF choice = "pass" THEN down ELSE "nil"
      [] kind = "plot" -> IF choice = "err" THEN <<"error", i>> ELSE down
      [] kind = "droperrors" -> "nil"
      [] kind = "dropping" -> "nil"
      [] OTHER -> down

\* Sample(s) called on stage i: the synchronous chain of Sample calls.  oc
\* gives, per stage, the outcome of its Process function ("pass", "drop" for a
\* nil sample, "err") and, for the terminal sink, whether it fails ("err").
\* Returns what the stages have seen and the error returned to the caller.
RECURSIVE StageSample(_, _, _, _)
StageSample(i, s, oc, sn) ==
    LET got == [sn EXCEPT ![i] = Append(@, s)]
    IN  IF i = SinkIdx
          THEN [seen |-> got, err |-> IF oc[i] = "err" THEN <<"error", i>> ELSE "nil"]
          ELSE LET n == ForwardCount(stages[i], oc[i])
                   first == IF n >= 1 THEN StageSample(i + 1, s, oc, got)
                            ELSE [seen |-> got, err |-> "nil"]
                   last == IF n >= 2 THEN StageSample(i + 1, s, oc, first.seen)
                           ELSE first
               IN  [seen |-> last.seen,
                    err |-> StageResult(i, stages[i], oc[i], last.err)]

\* The source passes its next sample to the first stage.
SourceSample(oc) ==
    /\ srcState = "running"
    /\ srcNext <= MaxPipeSamples
    /\ LET out == StageSample(1, srcNext, oc, seen)
       IN  /\ seen' = out.seen
           /\ lastErr' = out.err
    /\ srcNext' = srcNext + 1
    /\ UNCHANGED <<stages, srcState, closing, closeLog, wgCount, OutputFile>>
    /\ UNCHANGED nonPipeVars

\* AbstractMetricSource.CloseSink, lines 65-78, called when the source is at
\* the end of its stream: the sink's Close is called inline (wg == nil) or in a
\* goroutine registered with wg.
CloseSink(withWg) ==
    /\ srcState = "running"
    /\ closing' = 1
    /\ srcState' = IF withWg THEN "stopped" ELSE "closing"
    /\ wgCount' = IF withWg THEN wgCount + 1 ELSE wgCount
    /\ UNCHANGED <<stages, seen, lastErr, srcNext, closeLog, OutputFile>>
    /\ UNCHANGED nonPipeVars

ClosesSink_SimpleForgets(kind) == kind # "simple"

\* Whether a stage's Close ends by calling Close on its sink:
\* NoopProcessor.Close -> CloseSink (156-160, 172-174), SimpleProcessor.Close
\* -> NoopProcessor.Close (211-216), DroppingSampleProcessor.Close -> CloseSink
\* (114-116); PlotProcessor.Close (plot.go 163-189) returns at once when Type
\* is invalid or OutputFile is empty, and only after that check defers
\* CloseSink.
ClosesSink(kind) == kind = "plot" => OutputFile # ""

\* The clean-up of a stage's Close before it closes its sink.
CloseEvents(i, kind) ==
    CASE kind = "simple" -> <<<<"close", i>>, <<"onclose", i>>, <<"stop", i>>>>
      [] kind = "dropping" -> <<<<"close", i>>>>
      [] kind = "sink" -> <<<<"close", i>>>>
      [] OTHER -> <<<<"close", i>>, <<"stop", i>>>>

\* PlotProcessor.Close, plot.go 163-189: nothing when the plot is not
\* configured; else a warning when no header was seen, or the plot is saved
\* and a failure reported with p.Error; the deferred CloseSink comes last.
PlotCloseEvents(i, noData, saveErr) ==
    IF OutputFile = "" THEN <<<<"close", i>>>>
    ELSE IF noData THEN <<<<"close", i>>, <<"nodata", i>>, <<"stop", i>>>>
    ELSE IF saveErr THEN <<<<"close", i>>, <<"save", i>>, <<"error", i>>, <<"stop", i>>>>
    ELSE <<<<"close", i>>, <<"save", i>>, <<"stop", i>>>>

\* Close() is invoked on stage `closing`: its own clean-up, then Close of its
\* sink.  When the chain of calls has returned, the goroutine of CloseSink(wg)
\* calls wg.Done(), or CloseSink(nil) returns to the source.  saveErr: saving
\* the plot fails (of a PlotProcessor only).
CloseStage(saveErr) ==
    /\ closing # 0
    /\ LET i == closing
           kind == IF i = SinkIdx THEN "sink" ELSE stages[i]
           goesOn == i < SinkIdx /\ ClosesSink(kind)
       IN  /\ closeLog' = closeLog \o
                  (IF kind = "plot" THEN PlotCloseEvents(i, seen[i] = <<>>, saveErr)
                   ELSE CloseEvents(i, kind))
           /\ closing' = IF goesOn THEN i + 1 ELSE 0
           /\ srcState' = IF goesOn THEN srcState ELSE "stopped"
           /\ wgCount' = IF ~goesOn /\ srcState = "stopped" THEN wgCount - 1 ELSE wgCount
    /\ UNCHANGED <<stages, seen, lastErr, srcNext, OutputFile>>
    /\ UNCHANGED nonPipeVars

PipeNext ==
    \/ \E oc \in [1..SinkIdx -> {"pass", "drop", "err"}] : SourceSample(oc)
    \/ \E withWg \in BOOLEAN : CloseSink(withWg)
    \/ \E saveErr \in BOOLEAN : CloseStage(saveErr)

\* A PlotProcessor whose Start failed (plot.go 56-61: no OutputFile) has
\* stopped the pipeline before the source produced a sample.
PlotSourceSample(oc) ==
    /\ OutputFile # ""
    /\ SourceSample(oc)

PlotNext ==
    \/ \E oc \in [1..SinkIdx -> {"pass", "err"}] : PlotSourceSample(oc)
    \/ \E withWg \in BOOLEAN : CloseSink(withWg)
    \/ \E saveErr \in BOOLEAN : CloseStage(saveErr)

-----------------------------------------------------------------------------
(* CSV marshaller.  A text is a sequence of one-character strings.          *)

csv_separator == ","
csv_newline == "\n"
time_col == <<"t", "i", "m", "e">>
tags_col == <<"t", "a", "g", "s">>

FieldNames == << <<"f">>, <<"g">>, <<"h">>, <<"k">> >>
Times == {7, 42}
Values == {-1, 12}
\* Tag maps, as the list of their (key, value) pairs.
TagMaps ==
    { <<>>,
      << << <<"a">>, <<"x">> >> >>,
      << << <<"a">>, <<"x">> >>, << <<"b">>, <<"y">> >> >> }

Headers == [HasTags : BOOLEAN, Fields : {SubSeq(FieldNames, 1, n) : n \in 0..MaxFields}]
Samples == [Time : Times, Tags : TagMaps, Values : SeqsUpTo(Values, MaxFields)]

NoHeader == [HasTags |-> FALSE, Fields |-> <<>>]
NoSample == [Time |-> 0, Tags |-> <<>>, Values |-> <<>>]

DigitChars == <<"0", "1", "2", "3", "4", "5", "6", "7", "8", "9">>

\* The decimal digits of a natural number.
RECURSIVE FormatNat(_)
FormatNat(n) ==
    IF n < 10 THEN <<DigitChars[n + 1]>>
    ELSE FormatNat(n \div 10) \o <<DigitChars[(n % 10) + 1]>>

\* A text of decimal digits only.
IsNat(str) ==
    /\ str # <<>>
    /\ \A k \in 1..Len(str) : \E d \in 1..10 : DigitChars[d] = str[k]

\* The number a text of decimal digits denotes.
RECURSIVE ParseNat(_)
ParseNat(str) ==
    IF str = <<>> THEN 0
    ELSE ParseNat(SubSeq(str, 1, Len(str) - 1)) * 10
         + (CHOOSE d \in 0..9 : DigitChars[d + 1] = str[Len(str)])

\* fmt.Sprintf("%v", value) of an integral value.
FormatValue(v) == IF v < 0 THEN <<"-">> \o FormatNat(-v) ELSE FormatNat(v)

\* strconv.ParseFloat on the texts of integral values: [ok, val].
ParseFloat(str) ==
    IF IsNat(str) THEN [ok |-> TRUE, val |-> ParseNat(str)]
    ELSE IF str # <<>> /\ str[1] \in {"-", "+"} /\ IsNat(Tail(str))
         THEN [ok |-> TRUE,
               val |-> IF str[1] = "-" THEN -ParseNat(Tail(str)) ELSE ParseNat(Tail(str))]
         ELSE [ok |-> FALSE, val |-> 0]

\* Time.Format(csv_date_format): a text without separator and newline, here
\* "@" and the digits of the time.
FormatTime(t) == <<"@">> \o FormatNat(t)

\* time.Parse(csv_date_format, str): [ok, val].
ParseTime(str) ==
    IF str # <<>> /\ str[1] = "@" /\ IsNat(Tail(str))
    THEN [ok |-> TRUE, val |-> ParseNat(Tail(str))]
    ELSE [ok |-> FALSE, val |-> 0]

\* strings.Split: the pieces of str between the occurrences of sep, the empty
\* ones included.
RECURSIVE Split(_, _)
Split(str, sep) ==
    IF str = <<>> THEN << <<>> >>
    ELSE LET rest == Split(Tail(str), sep)
         IN  IF Head(str) = sep THEN << <<>> >> \o rest
             ELSE << <<Head(str)>> \o Head(rest) >> \o Tail(rest)

\* strings.FieldsFunc(line, r == sep): the maximal runs without sep; empty
\* fields are not returned.
FieldsFunc(str, sep) == SelectSeq(Split(str, sep), LAMBDA f : f # <<>>)

\* Sample.TagString: "k1=v1 k2=v2".
RECURSIVE TagString(_)
TagString(tags) ==
    IF tags = <<>> THEN <<>>
    ELSE tags[1][1] \o <<"=">> \o tags[1][2]
         \o (IF Len(tags) > 1 THEN <<" ">> \o TagString(Tail(tags)) ELSE <<>>)

\* Sample.ParseTagString: [ok, val]; fails when a pair lacks "=" or a key repeats.
ParseTagString(str) ==
    LET pairs == FieldsFunc(str, " ")
        kv(k) == Split(pairs[k], "=")
    IN  IF /\ \A k \in 1..Len(pairs) : Len(kv(k)) = 2 /\ kv(k)[1] # <<>>
           /\ \A k \in 1..Len(pairs) : \A m \in 1..Len(pairs) :
                  k # m => kv(k)[1] # kv(m)[1]
        THEN [ok |-> TRUE, val |-> [k \in 1..Len(pairs) |-> <<kv(k)[1], kv(k)[2]>>]]
        ELSE [ok |-> FALSE, val |-> <<>>]

\* The texts of a list, each preceded by the separator.
RECURSIVE Columns(_)
Columns(texts) ==
    IF texts = <<>> THEN <<>>
    ELSE <<csv_separator>> \o Head(texts) \o Columns(Tail(texts))

WriteHeader(header) ==
    time_col
    \o (IF header.HasTags THEN <<csv_separator>> \o tags_col ELSE <<>>)
    \o Columns(header.Fields)
    \o <<csv_newline>>

WriteSample(sample, header) ==
    FormatTime(sample.Time)
    \o (IF header.HasTags THEN <<csv_separator>> \o TagString(sample.Tags) ELSE <<>>)
    \o Columns([k \in 1..Len(sample.Values) |-> FormatValue(sample.Values[k])])
    \o <<csv_newline>>

\* readCsvLine: ReadString up to and including the first newline (eof: the
\* input ended before one), the last character of the line is cut off, the
\* rest is split at the separators.  [fields, eof, rest].
readCsvLine(input) ==
    LET nls == {k \in 1..Len(input) : input[k] = csv_newline}
        eof == nls = {}
        end == IF eof THEN Len(input) ELSE CHOOSE k \in nls : \A m \in nls : k <= m
        line == SubSeq(input, 1, end)
    IN  [fields |-> IF line = <<>> THEN <<>>
                    ELSE FieldsFunc(SubSeq(line, 1, Len(line) - 1), csv_separator),
         eof |-> eof,
         rest |-> SubSeq(input, end + 1, Len(input))]

\* The result of a Read call: what was called, the error ("nil": none;
\* "panic": index out of range), the header or sample, the input left over.
Result(op, e, header, sample, rest) ==
    [op |-> op, err |-> e, header |-> header, sample |-> sample, rest |-> rest]

ReadHeader(input) ==
    LET l == readCsvLine(input)
        fields == l.fields
        HasTags == Len(fields) >= 2 /\ fields[2] = tags_col
        start == IF HasTags THEN 3 ELSE 2
        fail(e) == Result("ReadHeader", e, NoHeader, NoSample, l.rest)
    IN  IF fields = <<>> /\ l.eof THEN fail("EOF")
        ELSE IF fields = <<>> THEN fail("panic")
        ELSE IF fields[1] # time_col THEN fail("checkFirstCol")
        ELSE Result("ReadHeader", "nil",
                    [HasTags |-> HasTags, Fields |-> SubSeq(fields, start, Len(fields))],
                    NoSample, l.rest)

\* The number of value columns is not compared with header.Fields.
ReadSample(header, input) ==
    LET l == readCsvLine(input)
        fields == l.fields
        start == IF header.HasTags THEN 3 ELSE 2
        time == ParseTime(fields[1])
        tags == IF header.HasTags THEN ParseTagString(fields[2])
                ELSE [ok |-> TRUE, val |-> <<>>]
        vals == [k \in 1..(Len(fields) - start + 1) |-> ParseFloat(fields[start + k - 1])]
        fail(e) == Result("ReadSample", e, NoHeader, NoSample, l.rest)
    IN  IF fields = <<>> /\ l.eof THEN fail("EOF")
        ELSE IF fields = <<>> THEN fail("panic")
        ELSE IF ~time.ok THEN fail("time.Parse")
        ELSE IF header.HasTags /\ Len(fields) < 2 THEN fail("Sample too short")
        ELSE IF ~tags.ok THEN fail("ParseTagString")
        ELSE IF \E k \in 1..Len(vals) : ~vals[k].ok THEN fail("ParseFloat")
        ELSE Result("ReadSample", "nil", NoHeader,
                    [Time |-> time.val, Tags |-> tags.val,
                     Values |-> [k \in 1..Len(vals) |-> vals[k].val]],
                    l.rest)

NoRead == Result("none", "nil", NoHeader, NoSample, <<>>)

CsvStart ==
    /\ wire = <<>>
    /\ lineKind = "none"
    /\ wasCut = FALSE
    /\ rdInput = <<>>
    /\ rd = NoRead

CsvInit ==
    /\ csvHeader = NoHeader
    /\ csvSample = NoSample
    /\ CsvStart

CsvInitAny ==
    /\ csvHeader \in Headers
    /\ csvSample \in Samples
    /\ CsvStart

\* The writer writes the header line.
WriterWriteHeader ==
    /\ lineKind = "none"
    /\ rd.op = "none"
    /\ wire' = WriteHeader(csvHeader)
    /\ lineKind' = "header"
    /\ UNCHANGED <<csvHeader, csvSample, wasCut, rdInput, rd>>
    /\ UNCHANGED nonCsvVars

\* The writer writes the sample as one line.
WriterWriteSample ==
    /\ lineKind = "none"
    /\ rd.op = "none"
    /\ wire' = WriteSample(csvSample, csvHeader)
    /\ lineKind' = "sample"
    /\ UNCHANGED <<csvHeader, csvSample, wasCut, rdInput, rd>>
    /\ UNCHANGED nonCsvVars

\* The input ends early: the last n bytes written never arrive.
InputCut(n) ==
    /\ lineKind # "none"
    /\ ~wasCut
    /\ rd.op = "none"
    /\ n <= Len(wire)
    /\ wire' = SubSeq(wire, 1, Len(wire) - n)
    /\ wasCut' = TRUE
    /\ UNCHANGED <<csvHeader, csvSample, lineKind, rdInput, rd>>
    /\ UNCHANGED nonCsvVars

\* The reader calls ReadHeader on the input; it stops reading after an error.
ReaderReadHeader ==
    /\ lineKind \in {"none", "header"}
    /\ rd.err = "nil"
    /\ rdInput' = wire
    /\ rd' = ReadHeader(wire)
    /\ wire' = rd'.rest
    /\ UNCHANGED <<csvHeader, csvSample, lineKind, wasCut>>
    /\ UNCHANGED nonCsvVars

\* The reader calls ReadSample with the writer's header.
ReaderReadSample ==
    /\ lineKind = "sample"
    /\ rd.err = "nil"
    /\ rdInput' = wire
    /\ rd' = ReadSample(csvHeader, wire)
    /\ wire' = rd'.rest
    /\ UNCHANGED <<csvHeader, csvSample, lineKind, wasCut>>
    /\ UNCHANGED nonCsvVars

\* Input that no writer of this program produced: up to MaxInputLines lines,
\* the last one with or without its newline.
MaxInputLines == 2

InputLines ==
    { <<>>, <<",">>, <<",", ",">>, <<"x">>,
      time_col, time_col \o <<",">> \o tags_col, time_col \o <<",", "f">>,
      time_col \o <<",">> \o tags_col \o <<",", "f">>,
      <<"@", "1">>, <<"@", "1", ",", "a", "=", "x">>, <<"@", "1", ",", "1", "2">>,
      <<"@", "1", ",", "a", "=", "x", ",", "1", "2">>, <<"@", "1", ",", "x">> }

RECURSIVE JoinLines(_)
JoinLines(lines) ==
    IF lines = <<>> THEN <<>>
    ELSE Head(lines) \o <<csv_newline>> \o JoinLines(Tail(lines))

InputTexts ==
    LET whole == {JoinLines(ls) : ls \in SeqsUpTo(InputLines, MaxInputLines)}
    IN  whole \cup {SubSeq(t, 1, Len(t) - 1) : t \in whole \ {<<>>}}

\* A reader about to read header lines or sample lines (under any header)
\* from any input.
CsvInitInput ==
    /\ csvHeader \in Headers
    /\ csvSample = NoSample
    /\ wire \in InputTexts
    /\ lineKind \in {"header", "sample"}
    /\ wasCut = FALSE
    /\ rdInput = <<>>
    /\ rd = NoRead

CsvInputNext ==
    \/ ReaderReadHeader
    \/ ReaderReadSample

CsvNext ==
    \/ WriterWriteHeader
    \/ WriterWriteSample
    \/ \E n \in 1..MaxCut : InputCut(n)
    \/ ReaderReadHeader
    \/ ReaderReadSample

-----------------------------------------------------------------------------
(* Nested forks: the fork F hosts the templates tA and tB, tB contains the  *)
(* fork G, whose template tC contains the fork H with the empty template    *)
(* tD.  Samples are passed to F one after another.                          *)

NForks == {"F", "G", "H"}
NTemplates == {"tA", "tB", "tC", "tD"}
Keys == {"k1", "k2"}

\* The fork whose distributor holds the template.
Owner(t) == IF t \in {"tA", "tB"} THEN "F" ELSE IF t = "tC" THEN "G" ELSE "H"

\* SamplePipeline.Processors of the template, as built.
Steps(t) ==
    CASE t = "tA" -> <<"noop">>
      [] t = "tB" -> <<"G">>
      [] t = "tC" -> <<"noop", "H">>
      [] OTHER -> <<>>

\* Where a nested fork sits: template and position among its processors.
Host(g) ==
    CASE g = "G" -> [t |-> "tB", idx |-> 1]
      [] g = "H" -> [t |-> "tC", idx |-> 2]
      [] OTHER -> [t |-> "none", idx |-> 0]

\* A sink: nil, the merger of a fork, the sink a ForkRemapper designates for a
\* fork path, the ForkRemapper itself, a processor, or any other sink.
Sink(kind, fork, path) == [kind |-> kind, fork |-> fork, path |-> path]
NilSink == Sink("nil", "", <<>>)

\* PipelineBuilder.BuildPipeline(key, &f.merger) of AbstractMetricFork: the
\* pipeline the builder makes for a key.
BuildPipeline(f, key) ==
    CASE f = "F" -> IF key = "k1" THEN "tA" ELSE "tB"
      [] f = "G" -> "tC"
      [] OTHER -> "tD"

\* The {Pipe, Key} pairs a fork's distributor can return.  SampleFork: the
\* templates of the fork, all but tA under both keys; AbstractMetricFork: the
\* keys, each with the pipeline its builder makes for it.
NSubpipeline(impl, f) ==
    IF impl = "SampleFork"
      THEN {[Pipe |-> t, Key |-> k] : t \in {x \in NTemplates : Owner(x) = f},
                                      k \in Keys} \ {[Pipe |-> "tA", Key |-> "k2"]}
      ELSE {[Pipe |-> BuildPipeline(f, k), Key |-> k] :
                k \in IF f = "F" THEN Keys ELSE {"k1"}}

\* What Distribute may return: nothing or one sub-pipeline, for F also any two
\* sub-pipelines.
NDistributions(impl, f) ==
    {<<>>} \cup {<<a>> : a \in NSubpipeline(impl, f)}
    \cup (IF f = "F" THEN NSubpipeline(impl, f) \X NSubpipeline(impl, f) ELSE {})

NestStart ==
    /\ nStatus = "running"
    /\ nCache = [f \in NForks |-> <<>>]
    /\ nPathRef = [f \in NForks |-> IF f = "F" THEN 1 ELSE 0]
    /\ nHeap = << <<>> >>
    /\ nPipe = [t \in NTemplates |->
                  [Processors |-> Steps(t), Sink |-> NilSink, started |-> FALSE]]
    /\ nReceived = [t \in NTemplates |-> <<>>]
    /\ nMerged = [f \in NForks |-> 0]
    /\ nSelected = [f \in NForks |-> 0]
    /\ nMapped = {}
    /\ nLost = FALSE
    /\ nLastDist = <<>>
    /\ nServed = <<>>
    /\ nFailed = {}
    /\ nNext = 1

NestInit ==
    /\ nImpl = "SampleFork"
    /\ nRemap = FALSE
    /\ nNonfatal = FALSE
    /\ NestStart

NestInitAny ==
    /\ nImpl \in {"SampleFork", "AbstractMetricFork"}
    /\ nRemap \in BOOLEAN
    /\ nNonfatal \in BOOLEAN
    /\ NestStart

\* The content of the slice a ForkPath refers to.
PathOf(ref, heap) == IF ref = 0 THEN <<>> ELSE heap[ref]

SetForkPaths_Append(ref, heap, key) ==
    [ref |-> ref, heap |-> [heap EXCEPT ![ref] = Append(@, key)]]

\* setForkPaths, part_003:106-108 (part_002:380-382): a new slice, one longer
\* than f.ForkPath, gets the copy of f.ForkPath and the key as last element.
SetForkPaths(ref, heap, key) ==
    [ref |-> Len(heap) + 1, heap |-> Append(heap, Append(PathOf(ref, heap), key))]

\* A fork has been started (Start makes its pipelines map): the outermost one
\* by its pipeline, a nested one when the sub-pipeline hosting it was started.
ForkStarted(f, st) == f = "F" \/ st.pipe[Host(f).t].started

\* f.OutgoingSink of a fork: what follows it in the pipeline hosting it.
OutgoingSink(f, st) ==
    IF f = "F" THEN (IF nRemap THEN Sink("remapper", "", <<>>) ELSE Sink("other", "", <<>>))
    ELSE LET h == Host(f)
             p == st.pipe[h.t]
         IN  IF ~p.started THEN NilSink
             ELSE IF h.idx < Len(p.Processors) THEN Sink("processor", "", <<>>)
             ELSE p.Sink

\* AbstractMetricFork.getRemappedSinkRecursive, part_002:402-413: a
\* ForkRemapper designates the sink for the path, a ForkMerger is looked
\* through to the outgoing sink of its fork, anything else gives nil.
RECURSIVE GetRemappedSinkRecursive(_, _, _)
GetRemappedSinkRecursive(og, forkPath, st) ==
    CASE og.kind = "remapper" -> Sink("mapped", "", forkPath)
      [] og.kind = "merger" ->
           GetRemappedSinkRecursive(OutgoingSink(og.fork, st), forkPath, st)
      [] OTHER -> NilSink

\* AbstractMetricFork.getRemappedSink, part_002:391-400
GetRemappedSink(f, t, forkPath, st) ==
    IF Steps(t) # <<>> /\ Steps(t)[Len(Steps(t))] \in NForks THEN NilSink
    ELSE GetRemappedSinkRecursive(OutgoingSink(f, st), forkPath, st)

\* MultiPipeline.StartPipeline: the pipeline without a sink gets the fork's
\* merger, is constructed (its steps wired to their sinks) and started.
StartPipeline(f, p) ==
    [p EXCEPT !.Sink = IF @ = NilSink THEN Sink("merger", f, <<>>) ELSE @,
              !.started = TRUE]

\* SampleFork.initializePipeline, part_003:91-103: the paths of the forks of
\* the sub-pipeline are set, the merger is added as its last processor.
\* AbstractMetricFork.newPipeline, part_002:346-369: the paths are set, a
\* pipeline without sink gets the remapped sink, the pipeline is started.
NInitializePipeline(f, subpipe, st) ==
    LET t == subpipe.Pipe
        slice == SetForkPaths(st.pathRef[f], st.heap, subpipe.Key)
        inside == {Steps(t)[i] : i \in 1..Len(Steps(t))}
        st1 == [st EXCEPT !.heap = slice.heap,
                          !.pathRef = [g \in NForks |->
                                         IF g \in inside THEN slice.ref ELSE @[g]]]
        path == PathOf(slice.ref, slice.heap)
    IN  IF nImpl = "SampleFork"
          THEN [st1 EXCEPT !.pipe[t].Processors = Append(@, "merger")]
          ELSE [st1 EXCEPT !.pipe[t] =
                   StartPipeline(f, [@ EXCEPT !.Sink = GetRemappedSink(f, t, path, st1)])]

\* The sink of the last step of a sub-pipeline: set when the pipeline is
\* constructed, to the merger added as last processor (SampleFork) or to the
\* Sink of the pipeline (AbstractMetricFork).
LastStepSink(t, p) ==
    IF ~p.started THEN NilSink
    ELSE IF nImpl = "SampleFork" THEN Sink("merger", Owner(t), <<>>)
    ELSE p.Sink

\* The key of the cache: SampleFork.getPipeline uses subpipe.Pipe (part_003:77),
\* AbstractMetricFork.getPipeline the key (part_002:335).
NCacheKey(subpipe) == IF nImpl = "SampleFork" THEN CacheKey(subpipe) ELSE subpipe.Key

\* getPipeline, part_003:73-89 (part_002:332-344): the cached first step, or
\* the first step of the pipeline initialized now, which is cached.  Storing into
\* the pipelines map of a fork that was never started panics.
NGetPipeline(f, subpipe, st) ==
    LET ck == NCacheKey(subpipe)
        firstStep == [t |-> subpipe.Pipe, idx |-> 1]
        st1 == NInitializePipeline(f, subpipe, st)
    IN  IF ck \in DOMAIN st.cache[f]
          THEN [st |-> st, step |-> st.cache[f][ck].firstStep]
        ELSE IF ~ForkStarted(f, st)
          THEN [st |-> [st1 EXCEPT !.panicked = TRUE], step |-> firstStep]
        ELSE [st |-> [st1 EXCEPT !.cache[f] =
                        [k \in DOMAIN @ \cup {ck} |->
                           IF k = ck THEN [key |-> subpipe.Key, pipe |-> subpipe.Pipe,
                                           firstStep |-> firstStep]
                           ELSE @[k]]],
              step |-> firstStep]

SetSink_Dedup(snks, step) ==
    IF \E j \in 1..Len(snks) : snks[j] = step THEN snks ELSE Append(snks, step)

SetSink_Front(snks, step) == <<step>> \o snks

\* getSubpipelineSink, part_003:68: sinks[i] = f.getPipeline(subpipe)
SetSink(snks, step) == Append(snks, step)

\* getSubpipelineSink, part_003:65-71 (getPipelines, part_002:324-330), from
\* the i-th sub-pipeline on.
RECURSIVE NGetSubpipelineSink(_, _, _, _, _)
NGetSubpipelineSink(f, subs, i, snks, st) ==
    IF i > Len(subs) \/ st.panicked THEN [st |-> st, snks |-> snks]
    ELSE LET got == NGetPipeline(f, subs[i], st)
         IN  NGetSubpipelineSink(f, subs, i + 1, SetSink(snks, got.step), got.st)

RECURSIVE NForkSample(_, _, _, _)
RECURSIVE PipeSample(_, _, _, _, _)
RECURSIVE NMux(_, _, _, _, _, _)

\* The merger of fork f passes the sample to the outgoing sink of the fork.
MergerSample(f, s, st, dists) ==
    LET st1 == [st EXCEPT !.merged[f] = @ + 1]
    IN  IF f = "F" THEN st1
        ELSE PipeSample(Host(f).t, Host(f).idx + 1, s, st1, dists)

\* Sample(s) on position idx of the pipeline of template t: a NoopProcessor
\* passes it to its sink (sample_processor.go:140-142), which it has once the
\* pipeline was constructed; a fork distributes it; behind the last processor
\* is the Sink of the pipeline.
PipeSample(t, idx, s, st, dists) ==
    LET p == st.pipe[t]
    IN  IF st.panicked THEN st
        ELSE IF idx > Len(p.Processors) THEN
               CASE p.Sink.kind = "merger" -> MergerSample(p.Sink.fork, s, st, dists)
                 [] p.Sink.kind = "mapped" -> [st EXCEPT !.mapped = @ \cup {p.Sink}]
                 [] OTHER -> [st EXCEPT !.lost = TRUE]
        ELSE CASE p.Processors[idx] = "merger" -> MergerSample(Owner(t), s, st, dists)
               [] p.Processors[idx] = "noop" ->
                    IF p.started THEN PipeSample(t, idx + 1, s, st, dists)
                    ELSE [st EXCEPT !.lost = TRUE]
               [] OTHER -> NForkSample(p.Processors[idx], s, st, dists)

\* sinkMultiplexer.Sample, part_003:146-158 (multiPipelineSink.Sample,
\* part_002:429-440), from sink j on: each first step gets the sample in turn.
NMux(f, snks, j, s, st, dists) ==
    IF j > Len(snks) \/ st.panicked THEN st
    ELSE LET step == snks[j]
             st1 == [st EXCEPT !.received[step.t] = Append(@, s),
                               !.served = IF f = "F" THEN Append(@, step.t) ELSE @]
         IN  NMux(f, snks, j + 1, s, PipeSample(step.t, step.idx, s, st1, dists), dists)

\* SampleFork.Sample, part_003:57-63, of fork f; dists gives what the
\* distributor of each fork returns.
NForkSample(f, s, st, dists) ==
    LET got == NGetSubpipelineSink(f, dists[f], 1, <<>>, st)
        st1 == [got.st EXCEPT !.selected[f] = @ + Len(dists[f])]
    IN  NMux(f, got.snks, 1, s, st1, dists)

\* The next sample is passed to the outermost fork; the call returns (or
\* panics) before the next one.
NestSample(dists) ==
    /\ nStatus = "running"
    /\ nNext <= MaxForkSamples
    /\ LET out == NForkSample("F", nNext,
                              [cache |-> nCache, pathRef |-> nPathRef, heap |-> nHeap,
                               pipe |-> nPipe, received |-> nReceived,
                               merged |-> nMerged, selected |-> nSelected,
                               mapped |-> nMapped, lost |-> nLost, served |-> <<>>,
                               panicked |-> FALSE],
                              dists)
       IN  /\ nCache' = out.cache
           /\ nPathRef' = out.pathRef
           /\ nHeap' = out.heap
           /\ nPipe' = out.pipe
           /\ nReceived' = out.received
           /\ nMerged' = out.merged
           /\ nSelected' = out.selected
           /\ nMapped' = out.mapped
           /\ nLost' = out.lost
           /\ nServed' = out.served
           /\ nStatus' = IF out.panicked THEN "panicked" ELSE nStatus
    /\ nLastDist' = dists["F"]
    /\ nNext' = nNext + 1
    /\ UNCHANGED <<nImpl, nRemap, nNonfatal, nFailed>>
    /\ UNCHANGED nonNestVars

\* A started sub-pipeline terminates with an error: the callback handed to
\* StartPipeline (part_002:360-362) calls MultiPipeline.LogFinishedPipeline,
\* which logs the error and, unless NonfatalErrors is set, stops the fork.
\* The pipelines map stays as it is.
SubpipelineFails(t) ==
    /\ nStatus = "running"
    /\ nPipe[t].started
    /\ t \notin nFailed
    /\ nFailed' = nFailed \cup {t}
    /\ nStatus' = IF nNonfatal THEN nStatus ELSE "stopped"
    /\ UNCHANGED <<nImpl, nRemap, nNonfatal, nCache, nPathRef, nHeap, nPipe, nReceived,
                   nMerged, nSelected, nMapped, nLost, nLastDist, nServed, nNext>>
    /\ UNCHANGED nonNestVars

NestNext ==
    \* the distributor of a nested fork is asked only if the sample gets there
    \/ \E dF \in NDistributions(nImpl, "F") :
       \E dG \in IF \E j \in 1..Len(dF) : dF[j].Pipe = Host("G").t
                  THEN NDistributions(nImpl, "G") ELSE {<<>>} :
       \E dH \in IF dG # <<>> THEN NDistributions(nImpl, "H") ELSE {<<>>} :
           NestSample([f \in NForks |-> IF f = "F" THEN dF ELSE IF f = "G" THEN dG ELSE dH])
    \/ \E t \in NTemplates : SubpipelineFails(t)

-----------------------------------------------------------------------------
(* Task group: a SamplePipeline constructed into a golib.TaskGroup, run with *)
(* WaitAndStop                                                               *)

\* The SourceTaskWrapper of the pipeline's source, its processors (up to the
\* sink), and tasks added besides the pipeline (the sender of runGroup).
GTasks == {"source", "processor", "sink", "sender"}

\* TestTcpListenerSourceError constructs a pipeline of a source alone; runGroup
\* adds processors, a sender and a timeout task.
GroupConfigs == {m \in SUBSET GTasks : "source" \in m}

GroupStart(m) ==
    /\ gMembers = m
    /\ gState = [t \in GTasks |-> "init"]
    /\ gErr = [t \in GTasks |-> "nil"]
    /\ gBindFailed = FALSE
    /\ gpc = "run"
    /\ gStopper = "none"
    /\ gNumErrs = 0
    /\ gExit = -1

GroupInit == GroupStart({"source"})

GroupInitAny == \E m \in GroupConfigs : GroupStart(m)

\* Start of a task returns its stop channel.  A listener source that cannot
\* bind its endpoint returns a channel already stopped with the error.
StartTask(t, bindFails) ==
    /\ gpc = "run"
    /\ t \in gMembers
    /\ gState[t] = "init"
    /\ LET failed == t = "source" /\ bindFails
       IN  /\ gState' = [gState EXCEPT ![t] = IF failed THEN "stopped" ELSE "running"]
           /\ gErr' = [gErr EXCEPT ![t] = IF failed THEN "error" ELSE "nil"]
           /\ gBindFailed' = (gBindFailed \/ failed)
    /\ UNCHANGED <<gMembers, gpc, gStopper, gNumErrs, gExit>>
    /\ UNCHANGED nonGroupVars

\* A processor or sink stops when its upstream has closed it, which a source
\* does at the end of its stream or when it is stopped, not when its Start
\* failed; the other tasks stop by themselves or when the group stops them.
CanFinish(t) ==
    IF t \in {"processor", "sink"}
      THEN gpc = "stopping" \/ (gState["source"] = "stopped" /\ ~gBindFailed)
      ELSE TRUE

\* A running task terminates, cleanly or with an error.
TaskFinish(t, e) ==
    /\ gpc # "done"
    /\ t \in gMembers
    /\ gState[t] = "running"
    /\ CanFinish(t)
    /\ gState' = [gState EXCEPT ![t] = "stopped"]
    /\ gErr' = [gErr EXCEPT ![t] = e]
    /\ UNCHANGED <<gMembers, gBindFailed, gpc, gStopper, gNumErrs, gExit>>
    /\ UNCHANGED nonGroupVars

\* WaitAndStop: every task is started; the select over the stop channels
\* returns one that is closed, and Stop is broadcast to the tasks.
WaitForAny(t) ==
    /\ gpc = "run"
    /\ \A u \in gMembers : gState[u] # "init"
    /\ t \in gMembers
    /\ gState[t] = "stopped"
    /\ gStopper' = t
    /\ gpc' = "stopping"
    /\ UNCHANGED <<gMembers, gState, gErr, gBindFailed, gNumErrs, gExit>>
    /\ UNCHANGED nonGroupVars

CollectErrors_Stopped(members, state, errs) ==
    Cardinality({t \in members : state[t] = "stopped"})

\* The errors of the multi-error: one per stop channel that is closed with a
\* non-nil error.
CollectErrors(members, state, errs) ==
    Cardinality({t \in members : state[t] = "stopped" /\ errs[t] # "nil"})

ExitCode_Flag(numErrs) == IF numErrs > 0 THEN 1 ELSE 0

\* main: os.Exit(do_main()), do_main returns pipe.StartAndWait().
ExitCode(numErrs) == numErrs

\* WaitAndStop returns when all tasks have stopped or the timeout has passed
\* (tasks still running are reported, not counted); main exits with the count.
WaitAndStop(timeout) ==
    /\ gpc = "stopping"
    /\ timeout \/ \A t \in gMembers : gState[t] = "stopped"
    /\ gNumErrs' = CollectErrors(gMembers, gState, gErr)
    /\ gExit' = ExitCode(CollectErrors(gMembers, gState, gErr))
    /\ gpc' = "done"
    /\ UNCHANGED <<gMembers, gState, gErr, gBindFailed, gStopper>>
    /\ UNCHANGED nonGroupVars

GroupNext ==
    \/ \E t \in GTasks, bindFails \in BOOLEAN : StartTask(t, bindFails)
    \/ \E t \in GTasks, e \in {"nil", "error"} : TaskFinish(t, e)
    \/ \E t \in GTasks : WaitForAny(t)
    \/ \E timeout \in BOOLEAN : WaitAndStop(timeout)

-----------------------------------------------------------------------------
(* TCP: a TCPListenerSink multiplexing its samples to the connected readers *)

\* The TCPSource instances that dial the listener.
Readers == {"r1", "r2"}

TcpStart(n) ==
    /\ BufferedSamples = n
    /\ tConn = [r \in Readers |-> "idle"]
    /\ tJoin = [r \in Readers |-> 0]
    /\ tBuf = [r \in Readers |-> <<>>]
    /\ tGot = [r \in Readers |-> <<>>]
    /\ tSent = 0
    /\ tSinkClosed = FALSE
    /\ tErrs = 0

\* testListenerSinkAll: a buffer that holds all samples.
TcpInit == TcpStart(MaxTcpSamples)

\* The same with any buffer size.
TcpInitAny == \E n \in 1..MaxTcpSamples : TcpStart(n)

\* A TCPSource dials the listener and its connection is accepted.
TcpConnect(r) ==
    /\ ~tSinkClosed
    /\ tConn[r] = "idle"
    /\ tConn' = [tConn EXCEPT ![r] = "connected"]
    /\ tJoin' = [tJoin EXCEPT ![r] = tSent]
    /\ UNCHANGED <<BufferedSamples, tBuf, tGot, tSent, tSinkClosed, tErrs>>
    /\ UNCHANGED nonTcpVars

Offer_Overwrite(buf, sample, n) ==
    IF Len(buf) < n THEN [buf |-> Append(buf, sample), overflow |-> FALSE]
    ELSE [buf |-> Append(Tail(buf), sample), overflow |-> FALSE]

\* A sample is offered to the buffer of a connection: it is appended, or the
\* buffer of BufferedSamples entries overflows.
Offer(buf, sample, n) ==
    IF Len(buf) < n THEN [buf |-> Append(buf, sample), overflow |-> FALSE]
    ELSE [buf |-> <<>>, overflow |-> TRUE]

\* TCPListenerSink.Sample: the sample goes to the buffer of every connection;
\* a connection whose buffer overflows is closed by the sink.  The call does
\* not wait for any reader.
TcpSample ==
    /\ ~tSinkClosed
    /\ tSent < MaxTcpSamples
    /\ tSent' = tSent + 1
    /\ LET up == {r \in Readers : tConn[r] = "connected"}
           res == [r \in Readers |-> Offer(tBuf[r], tSent + 1, BufferedSamples)]
           over == {r \in up : res[r].overflow}
       IN  /\ tBuf' = [r \in Readers |-> IF r \in up THEN res[r].buf ELSE tBuf[r]]
           /\ tConn' = [r \in Readers |-> IF r \in over THEN "dropped" ELSE tConn[r]]
           /\ tErrs' = tErrs + Cardinality(over)
    /\ UNCHANGED <<BufferedSamples, tJoin, tGot, tSinkClosed>>
    /\ UNCHANGED nonTcpVars

Next_Newest(buf) == [sample |-> buf[Len(buf)], rest |-> SubSeq(buf, 1, Len(buf) - 1)]

\* The sample a connection transmits next: the oldest one of its buffer.
Next_Oldest(buf) == [sample |-> Head(buf), rest |-> Tail(buf)]

\* The connection of reader r transmits its next sample; the TCPSource
\* unmarshals it and passes it to the processor behind it.
TcpDeliver(r) ==
    /\ tConn[r] = "connected"
    /\ tBuf[r] # <<>>
    /\ tBuf' = [tBuf EXCEPT ![r] = Next_Oldest(tBuf[r]).rest]
    /\ tGot' = [tGot EXCEPT ![r] = Append(@, Next_Oldest(tBuf[r]).sample)]
    /\ UNCHANGED <<BufferedSamples, tConn, tJoin, tSent, tSinkClosed, tErrs>>
    /\ UNCHANGED nonTcpVars

\* TCPSource.Close: the reader closes its connection and stops.
TcpCloseSource(r) ==
    /\ tConn[r] \in {"idle", "connected", "dropped"}
    /\ tConn' = [tConn EXCEPT ![r] = "closed"]
    /\ tBuf' = [tBuf EXCEPT ![r] = <<>>]
    /\ UNCHANGED <<BufferedSamples, tJoin, tGot, tSent, tSinkClosed, tErrs>>
    /\ UNCHANGED nonTcpVars

\* TCPListenerSink.Close: the listener stops accepting; the connections send
\* what they have buffered and are closed.
TcpCloseSink ==
    /\ ~tSinkClosed
    /\ tSinkClosed' = TRUE
    /\ UNCHANGED <<BufferedSamples, tConn, tJoin, tBuf, tGot, tSent, tErrs>>
    /\ UNCHANGED nonTcpVars

\* A connection of the closed sink has sent everything and is closed.
TcpConnDone(r) ==
    /\ tSinkClosed
    /\ tConn[r] = "connected"
    /\ tBuf[r] = <<>>
    /\ tConn' = [tConn EXCEPT ![r] = "closed"]
    /\ UNCHANGED <<BufferedSamples, tJoin, tBuf, tGot, tSent, tSinkClosed, tErrs>>
    /\ UNCHANGED nonTcpVars

TcpNext ==
    \/ \E r \in Readers : TcpConnect(r)
    \/ TcpSample
    \/ \E r \in Readers : TcpDeliver(r)
    \/ \E r \in Readers : TcpCloseSource(r)
    \/ TcpCloseSink
    \/ \E r \in Readers : TcpConnDone(r)

-----------------------------------------------------------------------------
(* AST lowering: query/ast_lowering.go.  A Pipeline is a sequence of steps; *)
(* a step is [type, toks, pipes]: its tokens (the name of an Output, Step or *)
(* Fork, the endpoints of an Input) and its sub-pipelines.                   *)

MultiplexForkName == "multiplex"

MkStep(type, toks, pipes) == [type |-> type, toks |-> toks, pipes |-> pipes]

Input(toks) == MkStep("Input", toks, <<>>)
Output(tok) == MkStep("Output", <<tok>>, <<>>)
Step(name) == MkStep("Step", <<name>>, <<>>)
Pipelines(pipes) == MkStep("Pipelines", <<>>, pipes)
Fork(name, pipes) == MkStep("Fork", <<name>>, pipes)
MultiInput(pipes) == MkStep("MultiInput", <<>>, pipes)

emptyEndpointToken == "empty://-"

\* Errors: nil, an error as the hook returned it, or a ParserError with the
\* token it points at.
NilErr == [kind |-> "nil", pos |-> "", msg |-> ""]
HookErr(name) == [kind |-> "error", pos |-> "", msg |-> name]
ParserError(pos, msg) == [kind |-> "ParserError", pos |-> pos, msg |-> msg]

\* step.Pos(), pipe.Pos(): the first token of the element ("" if it has none).
Pos(step) ==
    IF step.toks # <<>> THEN step.toks[1]
    ELSE IF step.pipes # <<>> /\ step.pipes[1] # <<>> /\ step.pipes[1][1].toks # <<>>
           THEN step.pipes[1][1].toks[1]
    ELSE ""

\* The scripts considered.  Sub-pipelines: with or without a leading input,
\* followed by nothing, a step, an output, or a nested fork or group.
AstLeaves == {Step("a"), Output("o"), Input(<<"x">>)}

AstSubBodies ==
    { <<>>, <<Step("a")>>, <<Output("o")>>,
      <<Fork("f", << <<Input(<<"k">>), Step("b")>> >>)>>,
      <<Pipelines(<< <<Step("b")>> >>)>> }

AstSubs == AstSubBodies \cup {<<Input(<<"k">>)>> \o b : b \in AstSubBodies}

AstGroups == UNION {[1..n -> AstSubs] : n \in 1..MaxBranches}

AstBodySteps ==
    AstLeaves \cup {Pipelines(g) : g \in AstGroups} \cup {Fork("f", g) : g \in AstGroups}

AstBodies ==
    {<<>>} \cup {<<st>> : st \in AstBodySteps}
           \cup {<<l, st>> : l \in {Step("b"), Output("o")}, st \in AstBodySteps}

AstPipelines ==
    AstBodies
      \cup {<<Input(<<"x">>)>> \o b : b \in AstBodies}
      \cup {<<Pipelines(g)>> \o b : g \in AstGroups, b \in {<<>>, <<Step("a")>>, <<Output("o")>>}}

\* What the hook rejects: nothing, or one name, or a step and an output.
Rejections ==
    {{}, {"x"}, {"k"}, {"o"}, {"a"}, {"b"}, {"f"}, {MultiplexForkName}, {"a", "o"}}

NotLowered == [res |-> <<>>, err |-> NilErr, log |-> <<"none">>]

AstInit ==
    /\ astIn = <<Input(<<"x">>), Step("a")>>
    /\ astRej = {}
    /\ astOut = NotLowered

AstInitAny ==
    /\ astIn \in AstPipelines
    /\ astRej \in Rejections
    /\ astOut = NotLowered

\* A call of the hook: VerifyInput(inputs), VerifyOutput(output),
\* VerifyStep(name, params), VerifyFork(name, params).
Verify(kind, toks, rej) ==
    IF \E i \in 1..Len(toks) : toks[i] \in rej
      THEN HookErr(toks[CHOOSE i \in 1..Len(toks) : toks[i] \in rej])
      ELSE NilErr

Itoa_Zero(i) == "0"

\* strconv.Itoa for the indexes that occur.
Itoa(i) == DigitChars[i + 1]

MultiplexPipes_First(pipes) == <<<<Input(<<"0">>)>> \o pipes[1]>>

\* transformMultiplex, lines 140-143: the key of sub-pipeline i is put in
\* front of it.
MultiplexPipes(pipes) ==
    [i \in 1..Len(pipes) |-> <<Input(<<Itoa(i - 1)>>)>> \o pipes[i]]

\* transformStep, lines 130-135: the hook's error becomes a ParserError at the
\* step's name.
WrapStepError(name, e) == ParserError(name, e.msg)

RECURSIVE transform(_, _, _, _)
RECURSIVE transformLoop(_, _, _, _)
RECURSIVE transformFork(_, _, _)
RECURSIVE transformSubs(_, _, _, _, _, _)

\* The sub-pipelines of a multi-input (isInput) or of a fork are transformed
\* in order; the first error ends the loop.
transformSubs(pipes, i, isInput, acc, rej, log) ==
    IF i > Len(pipes) THEN [res |-> acc, err |-> NilErr, log |-> log]
    ELSE LET r == transform(pipes[i], isInput, rej, log)
         IN  IF r.err.kind # "nil" THEN [res |-> acc, err |-> r.err, log |-> r.log]
             ELSE transformSubs(pipes, i + 1, isInput, Append(acc, r.res), rej, r.log)

\* Fork.transformFork, lines 153-167; returns [step, err, log].
transformFork(f, rej, log) ==
    LET lg == Append(log, <<"fork", f.toks>>)
        e == Verify("fork", f.toks, rej)
    IN  IF e.kind # "nil" THEN [step |-> Fork("", <<>>), err |-> e, log |-> lg]
        ELSE LET r == transformSubs(f.pipes, 1, FALSE, <<>>, rej, lg)
             IN  [step |-> Fork(f.toks[1], r.res), err |-> r.err, log |-> r.log]

\* One step of the loop of Pipeline.transform, lines 90-108: [step, err, log].
transformOne(st, rej, log) ==
    CASE st.type = "Output" ->
           [step |-> st, err |-> Verify("output", st.toks, rej),
            log |-> Append(log, <<"output", st.toks>>)]
      [] st.type = "Step" ->
           LET e == Verify("step", st.toks, rej)
           IN  [step |-> st,
                err |-> IF e.kind # "nil" THEN WrapStepError(st.toks[1], e) ELSE e,
                log |-> Append(log, <<"step", st.toks>>)]
      [] st.type = "Pipelines" ->
           transformFork(Fork(MultiplexForkName, MultiplexPipes(st.pipes)), rej, log)
      [] st.type = "Fork" -> transformFork(st, rej, log)
      [] OTHER ->
           [step |-> st,
            err |-> ParserError(Pos(st), "Unsupported pipeline step type during transformation"),
            log |-> log]

\* The loop of Pipeline.transform over the steps after the input.
transformLoop(steps, res, rej, log) ==
    IF steps = <<>> THEN [res |-> res, err |-> NilErr, log |-> log]
    ELSE LET r == transformOne(Head(steps), rej, log)
         IN  IF r.err.kind # "nil" THEN [res |-> res, err |-> r.err, log |-> r.log]
             ELSE transformLoop(Tail(steps), Append(res, r.step), rej, r.log)

\* Pipeline.transform, lines 57-114.
transform(pipe, isInput, rej, log) ==
    IF Len(pipe) = 0
      THEN [res |-> <<>>, err |-> ParserError("", "Empty pipeline is not allowed"),
            log |-> log]
    ELSE IF pipe[1].type = "Input"
      THEN LET lg == IF isInput THEN Append(log, <<"input", pipe[1].toks>>) ELSE log
               e == IF isInput THEN Verify("input", pipe[1].toks, rej) ELSE NilErr
           IN  IF e.kind # "nil" THEN [res |-> <<>>, err |-> e, log |-> lg]
               ELSE transformLoop(Tail(pipe), <<pipe[1]>>, rej, lg)
    ELSE IF pipe[1].type = "Pipelines" /\ isInput
      THEN LET mi == transformSubs(pipe[1].pipes, 1, TRUE, <<>>, rej, log)
           IN  IF mi.err.kind # "nil" THEN [res |-> <<>>, err |-> mi.err, log |-> mi.log]
               ELSE transformLoop(Tail(pipe), <<MultiInput(mi.res)>>, rej, mi.log)
    ELSE transformLoop(pipe, <<>>, rej, log)

\* Pipeline.Transform, lines 44-55.
Transform(pipe, rej) ==
    LET r == transform(pipe, TRUE, rej, <<>>)
    IN  IF r.err.kind = "nil" /\ r.res[1].type \notin {"Input", "MultiInput"}
          THEN [r EXCEPT !.res = <<Input(<<emptyEndpointToken>>)>> \o r.res]
          ELSE r

\* The script is lowered.
Lower ==
    /\ astOut = NotLowered
    /\ astOut' = Transform(astIn, astRej)
    /\ UNCHANGED <<astIn, astRej>>
    /\ UNCHANGED nonAstVars

AstNext == Lower

-----------------------------------------------------------------------------
(* Script parser.  A script is taken with its brackets matched: a pipeline  *)
(* is a sequence of segments separated by "->"; a segment is a list of      *)
(* strings, a call name(...), or a call or nothing followed by parts, a     *)
(* part being a {group} of pipelines or a [fragment].                       *)

RawSeg(kind, toks, parts) == [kind |-> kind, toks |-> toks, parts |-> parts]
Words(toks) == RawSeg("words", toks, <<>>)
Call(name) == RawSeg("call", <<name>>, <<>>)
RawFork(name, parts) == RawSeg("fork", <<name>>, parts)
RawGroup(parts) == RawSeg("group", <<>>, parts)
Group(pipes) == [frag |-> FALSE, pipes |-> pipes]
Fragment(pipe) == [frag |-> TRUE, pipes |-> <<pipe>>]

\* The sub-pipelines written inside { }.
RawSubs ==
    { <<Call("a")>>, <<Words(<<"k">>)>>, <<Words(<<"k">>), Call("a")>>,
      <<Words(<<"m">>), Call("b")>>, <<Call("b"), Words(<<"o">>)>>,
      <<Words(<<"k">>), Words(<<"o">>)>> }

RawGroups == {Group(g) : g \in UNION {[1..n -> RawSubs] : n \in 1..MaxBranches}}

RawFragments == {Fragment(<<Call("s")>>), Fragment(<<Call("t"), Call("u")>>)}

\* { } alone, with a fragment in front, behind, or both, and with a second
\* group behind the second fragment.
RawParts ==
    {<<g>> : g \in RawGroups}
      \cup {<<f, g>> : f \in RawFragments, g \in RawGroups}
      \cup {<<g, f>> : g \in RawGroups, f \in RawFragments}
      \cup {<<Fragment(<<Call("s")>>), g, Fragment(<<Call("t"), Call("u")>>)>> : g \in RawGroups}
      \cup {<<Fragment(<<Call("s")>>), g, Fragment(<<Call("t"), Call("u")>>), Group(<<p>>)>> :
               g \in RawGroups, p \in {<<Call("f")>>, <<Words(<<"n">>), Call("f")>>}}

RawAtoms == {Words(<<"x">>), Words(<<"o">>), Words(<<"o", "p">>), Call("c")}

RawScripts ==
    {<<h>> : h \in RawAtoms}
      \cup {<<h, t>> : h \in RawAtoms, t \in RawAtoms}
      \cup {<<h, t, u>> : h \in {Words(<<"x">>)}, t \in RawAtoms, u \in RawAtoms}
      \cup {<<RawGroup(ps)>> : ps \in RawParts}
      \cup {<<RawFork("f", ps)>> : ps \in RawParts}
      \cup {<<Words(<<"x">>), RawGroup(ps)>> : ps \in RawParts}
      \cup {<<Words(<<"x">>), RawFork("f", ps)>> : ps \in RawParts}

NotParsed == [res |-> <<>>, err |-> NilErr, done |-> FALSE]

ParseInit ==
    /\ psIn = <<Words(<<"x">>)>>
    /\ psOut = NotParsed
    /\ tkIn = <<"STR">>
    /\ tkOut = NotParsed

ParseInitAny ==
    /\ psIn \in RawScripts
    /\ psOut = NotParsed
    /\ tkIn = <<"STR">>
    /\ tkOut = NotParsed

\* The first token of a parsed pipeline.
FirstToken(pipe) == IF pipe = <<>> THEN "" ELSE Pos(pipe[1])

HasKey(pipe) == pipe # <<>> /\ pipe[1].type = "Input"

OutputOf_First(toks) == [step |-> Output(toks[1]), err |-> NilErr]

\* Strings behind "->" are an output, which has one endpoint
\* (TestValidatePipeline: "a->b c"; TestExamples: "a->b->c").
OutputOf(toks) ==
    IF Len(toks) = 1 THEN [step |-> Output(toks[1]), err |-> NilErr]
    ELSE [step |-> Output(toks[1]),
          err |-> ParserError(toks[1], "Multiple sequential outputs are not allowed")]

ValidateFork_None(pipes, i) == NilErr

RECURSIVE ValidateFork(_, _)
\* The sub-pipelines of a fork: TestValidatePipeline "a->fork(){x()}" and
\* "fork(){a}".
ValidateFork(pipes, i) ==
    IF i > Len(pipes) THEN NilErr
    ELSE IF ~HasKey(pipes[i])
      THEN ParserError(FirstToken(pipes[i]),
                       "Forked pipeline must start with a pipeline identifier (string)")
    ELSE IF Len(pipes[i]) = 1
      THEN ParserError(FirstToken(pipes[i]),
                       "Forked pipeline must have at least one pipeline step")
    ELSE ValidateFork(pipes, i + 1)

RECURSIVE ValidateMultiplex(_, _)
\* The sub-pipelines of a group behind another step: TestValidatePipeline
\* "a->{a->b()}".
ValidateMultiplex(pipes, i) ==
    IF i > Len(pipes) THEN NilErr
    ELSE IF HasKey(pipes[i])
      THEN ParserError(FirstToken(pipes[i]),
                       "Multiplexed pipeline cannot start with an identifier (string)")
    ELSE ValidateMultiplex(pipes, i + 1)

Stitched_KeyLast(key, steps) == steps \o key

\* A stitched pipeline: its key, if any, then its steps.
Stitched(key, steps) == key \o steps

RECURSIVE parsePipeline(_, _, _)
RECURSIVE parseParts(_, _, _, _)
RECURSIVE parseGroup(_, _, _, _, _)

\* The pipelines of a group are parsed and stitched to what precedes: pipeline
\* i continues the i-th pipeline so far when their keys agree, and else starts
\* a pipeline of its own behind the fragments so far (TestFragmentedPipelines).
parseGroup(raws, i, start, pipes, prefix) ==
    IF i > Len(raws) THEN [pipes |-> pipes, err |-> NilErr]
    ELSE LET r == parsePipeline(raws[i], 1, <<>>)
             key == IF HasKey(r.res) THEN <<r.res[1]>> ELSE <<>>
             body == IF HasKey(r.res) THEN Tail(r.res) ELSE r.res
         IN  IF r.err.kind # "nil" THEN [pipes |-> pipes, err |-> r.err]
             ELSE IF i <= start /\ pipes[i].key = key
               THEN parseGroup(raws, i + 1, start,
                               [pipes EXCEPT ![i].steps = @ \o body], prefix)
             ELSE parseGroup(raws, i + 1, start,
                             Append(pipes, [key |-> key, steps |-> prefix \o body]), prefix)

\* The parts behind a fork's call or of a group, in script order: a fragment
\* is appended to every pipeline so far and kept for the pipelines to come.
parseParts(parts, j, pipes, prefix) ==
    IF j > Len(parts)
      THEN [pipes |-> [i \in 1..Len(pipes) |-> Stitched(pipes[i].key, pipes[i].steps)],
            err |-> NilErr]
    ELSE IF parts[j].frag
      THEN LET r == parsePipeline(parts[j].pipes[1], 2, <<>>)
           IN  IF r.err.kind # "nil" THEN [pipes |-> <<>>, err |-> r.err]
               ELSE parseParts(parts, j + 1,
                               [i \in 1..Len(pipes) |->
                                   [pipes[i] EXCEPT !.steps = @ \o r.res]],
                               prefix \o r.res)
    ELSE LET g == parseGroup(parts[j].pipes, 1, Len(pipes), pipes, prefix)
         IN  IF g.err.kind # "nil" THEN [pipes |-> <<>>, err |-> g.err]
             ELSE parseParts(parts, j + 1, g.pipes, prefix)

\* One segment; first: it is the first of its pipeline.  Returns [step, err].
parseStep(seg, first) ==
    CASE seg.kind = "words" ->
           IF first THEN [step |-> Input(seg.toks), err |-> NilErr]
           ELSE OutputOf(seg.toks)
      [] seg.kind = "call" -> [step |-> Step(seg.toks[1]), err |-> NilErr]
      [] seg.kind = "fork" ->
           LET r == parseParts(seg.parts, 1, <<>>, <<>>)
               e == IF r.err.kind # "nil" THEN r.err ELSE ValidateFork(r.pipes, 1)
           IN  [step |-> Fork(seg.toks[1], r.pipes), err |-> e]
      [] OTHER ->
           LET r == parseParts(seg.parts, 1, <<>>, <<>>)
               e == IF r.err.kind # "nil" THEN r.err
                    ELSE IF first THEN NilErr ELSE ValidateMultiplex(r.pipes, 1)
           IN  [step |-> Pipelines(r.pipes), err |-> e]

\* The segments of a pipeline from the i-th on.
parsePipeline(raw, i, acc) ==
    IF Len(acc) = Len(raw) THEN [res |-> acc, err |-> NilErr]
    ELSE LET r == parseStep(raw[Len(acc) + 1], i = 1 /\ acc = <<>>)
         IN  IF r.err.kind # "nil" THEN [res |-> <<>>, err |-> r.err]
             ELSE parsePipeline(raw, i, Append(acc, r.step))

-----------------------------------------------------------------------------
(* Script parser, from the lexer's tokens.  The recursive descent produces  *)
(* the tree of segments and parts that parsePipeline validates and stitches. *)

MaxTokens == 3

TokenTypes ==
    {"STR", "NEXT", "SEP", "OPEN", "CLOSE", "BRACKET_OPEN", "BRACKET_CLOSE",
     "PARAM_OPEN", "PARAM_CLOSE", "PARAM_SEP", "PARAM_EQ", "UNCLOSED_QUOT"}

\* The token at place i; behind the last token the lexer emits EOF.
Tok(toks, i) == IF i <= Len(toks) THEN toks[i] ELSE "EOF"

\* The literal of the token at place i: one per place, so that a token is
\* known by its literal.
Lit(i) == <<"t1", "t2", "t3", "t4", "t5", "t6", "t7", "t8", "t9", "t10", "t11", "t12",
            "t13", "t14", "t15", "t16">>[i]

LexerError == "Unexpected EOF, missing closing ' quote"
ExpectedPipelineStepError == "Expected pipeline step"

\* An error at token i: the lexer's, if the token is an unclosed quote.
ErrAt_Next(toks, i, msg) == ParserError(Lit(i + 1), msg)
ErrAt(toks, i, msg) ==
    IF Tok(toks, i) = "UNCLOSED_QUOT" THEN ParserError(Lit(i), LexerError)
    ELSE ParserError(Lit(i), msg)

Syn(tree, next, e) == [tree |-> tree, next |-> next, err |-> e]

RECURSIVE wordsFrom(_, _)
\* The literals of the strings from place i on.
wordsFrom(toks, i) ==
    IF Tok(toks, i) = "STR" THEN <<Lit(i)>> \o wordsFrom(toks, i + 1) ELSE <<>>

RECURSIVE syntaxParams(_, _)
\* name = value ( , name = value )* ")", from the name at place i; returns
\* the place behind ")".
syntaxParams(toks, i) ==
    IF Tok(toks, i) # "STR"
      THEN Syn(<<>>, i, ErrAt(toks, i, "Expected 'parameter name (string)'"))
    ELSE IF Tok(toks, i + 1) # "PARAM_EQ"
      THEN Syn(<<>>, i, ErrAt(toks, i + 1, "Expected '='"))
    ELSE IF Tok(toks, i + 2) # "STR"
      THEN Syn(<<>>, i, ErrAt(toks, i + 2, "Expected 'parameter value (string)'"))
    ELSE IF Tok(toks, i + 3) = "PARAM_CLOSE" THEN Syn(<<>>, i + 4, NilErr)
    ELSE IF Tok(toks, i + 3) = "PARAM_SEP" THEN syntaxParams(toks, i + 4)
    ELSE Syn(<<>>, i, ErrAt(toks, i + 3, "Expected ',' or ')'"))

RECURSIVE syntaxPipelines(_, _, _)
RECURSIVE syntaxPipeline(_, _, _)
RECURSIVE syntaxParts(_, _, _)
RECURSIVE syntaxStep(_, _)

\* Behind the pipelines r of a group: "}" and further parts.
groupEnd(toks, acc, r) ==
    IF r.err.kind # "nil" THEN r
    ELSE IF Tok(toks, r.next) # "CLOSE"
      THEN Syn(<<>>, r.next, ErrAt(toks, r.next, "Expected '}'"))
    ELSE syntaxParts(toks, r.next + 1, Append(acc, Group(r.tree)))

\* Behind the pipeline r of a fragment: "]" and further parts.
fragmentEnd(toks, acc, r) ==
    IF r.err.kind # "nil" THEN r
    ELSE IF Tok(toks, r.next) # "BRACKET_CLOSE"
      THEN Syn(<<>>, r.next, ErrAt(toks, r.next, "Expected ']'"))
    ELSE syntaxParts(toks, r.next + 1, Append(acc, Fragment(r.tree)))

\* {pipelines} and [pipeline] parts from place i on, as many as follow.
syntaxParts(toks, i, acc) ==
    IF Tok(toks, i) = "OPEN"
      THEN groupEnd(toks, acc, syntaxPipelines(toks, i + 1, <<>>))
    ELSE IF Tok(toks, i) = "BRACKET_OPEN"
      THEN fragmentEnd(toks, acc, syntaxPipeline(toks, i + 1, <<>>))
    ELSE Syn(acc, i, NilErr)

\* A call named by token i with the parts r behind its parameters: a step,
\* or a fork if there are parts.
callEnd(i, r) ==
    IF r.err.kind # "nil" THEN r
    ELSE IF r.tree = <<>> THEN Syn(Call(Lit(i)), r.next, NilErr)
    ELSE Syn(RawFork(Lit(i), r.tree), r.next, NilErr)

\* Behind the parameters ps of the call named by token i.
paramsEnd(toks, i, ps) ==
    IF ps.err.kind # "nil" THEN ps
    ELSE callEnd(i, syntaxParts(toks, ps.next, <<>>))

\* The parts r at the place of a step are a group.
groupStep(r) ==
    IF r.err.kind # "nil" THEN r ELSE Syn(RawGroup(r.tree), r.next, NilErr)

\* The strings ws from place i on are an input or an output.
wordsStep(toks, i, ws) ==
    IF Tok(toks, i + Len(ws)) = "UNCLOSED_QUOT"
      THEN Syn(<<>>, i, ErrAt(toks, i + Len(ws), LexerError))
    ELSE Syn(Words(ws), i + Len(ws), NilErr)

\* One step at place i: strings, a call with its parts, or parts.
syntaxStep(toks, i) ==
    IF Tok(toks, i) = "STR" /\ Tok(toks, i + 1) = "PARAM_OPEN"
      THEN IF Tok(toks, i + 2) = "PARAM_CLOSE"
             THEN paramsEnd(toks, i, Syn(<<>>, i + 3, NilErr))
           ELSE paramsEnd(toks, i, syntaxParams(toks, i + 2))
    ELSE IF Tok(toks, i) = "STR" THEN wordsStep(toks, i, wordsFrom(toks, i))
    ELSE IF Tok(toks, i) \in {"OPEN", "BRACKET_OPEN"}
      THEN groupStep(syntaxParts(toks, i, <<>>))
    ELSE Syn(<<>>, i, ErrAt(toks, i, ExpectedPipelineStepError))

\* Behind the step r of a pipeline: "->" and the next step, or the end.
stepEnd(toks, acc, r) ==
    IF r.err.kind # "nil" THEN r
    ELSE IF Tok(toks, r.next) = "NEXT"
      THEN syntaxPipeline(toks, r.next + 1, Append(acc, r.tree))
    ELSE Syn(Append(acc, r.tree), r.next, NilErr)

\* step ( "->" step )*
syntaxPipeline(toks, i, acc) == stepEnd(toks, acc, syntaxStep(toks, i))

\* Behind the pipeline r: ";" and the next pipeline, or the end.
pipelineEnd(toks, acc, r) ==
    IF r.err.kind # "nil" THEN r
    ELSE IF Tok(toks, r.next) = "SEP"
      THEN syntaxPipelines(toks, r.next + 1, Append(acc, r.tree))
    ELSE Syn(Append(acc, r.tree), r.next, NilErr)

\* pipeline ( ";" pipeline )*
syntaxPipelines(toks, i, acc) == pipelineEnd(toks, acc, syntaxPipeline(toks, i, <<>>))

\* Behind the pipelines r of the script: EOF.  Several pipelines are a group.
scriptEnd(toks, r) ==
    IF r.err.kind # "nil" THEN r
    ELSE IF Tok(toks, r.next) # "EOF"
      THEN Syn(<<>>, r.next, ErrAt(toks, r.next, "Expected 'EOF'"))
    ELSE IF Len(r.tree) = 1 THEN Syn(r.tree[1], r.next, NilErr)
    ELSE Syn(<<RawGroup(<<Group(r.tree)>>)>>, r.next, NilErr)

syntaxScript(toks) == scriptEnd(toks, syntaxPipelines(toks, 1, <<>>))

\* The syntax tree r is validated and stitched; a nil pipeline with every error.
validated(r) ==
    IF r.err.kind # "nil" THEN [res |-> <<>>, err |-> r.err]
    ELSE parsePipeline(r.tree, 1, <<>>)

\* Parser.Parse on tokens: [res, err].
parseTokens(toks) == validated(syntaxScript(toks))

\* The scripts of TestExpectedStep, TestExpectedEOF, TestExpectedClosingBracket,
\* TestValidatePipeline and TestParamErrors that are longer than MaxTokens.
TestScripts ==
    {
      \* x->{ ; }
      <<"STR", "NEXT", "OPEN", "SEP", "CLOSE">>,
      \* x->fork(){;}
      <<"STR", "NEXT", "STR", "PARAM_OPEN", "PARAM_CLOSE", "OPEN", "SEP", "CLOSE">>,
      \* x->fork(){->xx}->out
      <<"STR", "NEXT", "STR", "PARAM_OPEN", "PARAM_CLOSE", "OPEN", "NEXT", "STR", "CLOSE", "NEXT", "STR">>,
      \* x(a=b)(b=c)
      <<"STR", "PARAM_OPEN", "STR", "PARAM_EQ", "STR", "PARAM_CLOSE", "PARAM_OPEN", "STR", "PARAM_EQ", "STR", "PARAM_CLOSE">>,
      \* a->x{a()}
      <<"STR", "NEXT", "STR", "OPEN", "STR", "PARAM_OPEN", "PARAM_CLOSE", "CLOSE">>,
      \* x(a=b)aa
      <<"STR", "PARAM_OPEN", "STR", "PARAM_EQ", "STR", "PARAM_CLOSE", "STR">>,
      \* x(a=b){e->e()}]
      <<"STR", "PARAM_OPEN", "STR", "PARAM_EQ", "STR", "PARAM_CLOSE", "OPEN", "STR", "NEXT", "STR", "PARAM_OPEN", "PARAM_CLOSE", "CLOSE", "BRACKET_CLOSE">>,
      \* {a->b}()
      <<"OPEN", "STR", "NEXT", "STR", "CLOSE", "PARAM_OPEN", "PARAM_CLOSE">>,
      \* a->{ x() (d)
      <<"STR", "NEXT", "OPEN", "STR", "PARAM_OPEN", "PARAM_CLOSE", "PARAM_OPEN", "STR", "PARAM_CLOSE">>,
      \* a->{ x() aa
      <<"STR", "NEXT", "OPEN", "STR", "PARAM_OPEN", "PARAM_CLOSE", "STR">>,
      \* a->{ x(){a->v()} ]
      <<"STR", "NEXT", "OPEN", "STR", "PARAM_OPEN", "PARAM_CLOSE", "OPEN", "STR", "NEXT", "STR", "PARAM_OPEN", "PARAM_CLOSE", "CLOSE", "BRACKET_CLOSE">>,
      \* a->fork(){x()}
      <<"STR", "NEXT", "STR", "PARAM_OPEN", "PARAM_CLOSE", "OPEN", "STR", "PARAM_OPEN", "PARAM_CLOSE", "CLOSE">>,
      \* a->{a->b()}
      <<"STR", "NEXT", "OPEN", "STR", "NEXT", "STR", "PARAM_OPEN", "PARAM_CLOSE", "CLOSE">>,
      \* fork(){a}
      <<"STR", "PARAM_OPEN", "PARAM_CLOSE", "OPEN", "STR", "CLOSE">>,
      \* a->b c
      <<"STR", "NEXT", "STR", "STR">>,
      \* a(((
      <<"STR", "PARAM_OPEN", "PARAM_OPEN", "PARAM_OPEN">>,
      \* a(a=b,,)
      <<"STR", "PARAM_OPEN", "STR", "PARAM_EQ", "STR", "PARAM_SEP", "PARAM_SEP", "PARAM_CLOSE">>,
      \* a(a=,)
      <<"STR", "PARAM_OPEN", "STR", "PARAM_EQ", "PARAM_SEP", "PARAM_CLOSE">>,
      \* a(a=b,x=)
      <<"STR", "PARAM_OPEN", "STR", "PARAM_EQ", "STR", "PARAM_SEP", "STR", "PARAM_EQ", "PARAM_CLOSE">>,
      \* a('a',)
      <<"STR", "PARAM_OPEN", "STR", "PARAM_SEP", "PARAM_CLOSE">>,
      \* a(a=b,'x')
      <<"STR", "PARAM_OPEN", "STR", "PARAM_EQ", "STR", "PARAM_SEP", "STR", "PARAM_CLOSE">>,
      \* a(x=f{
      <<"STR", "PARAM_OPEN", "STR", "PARAM_EQ", "STR", "OPEN">>,
      \* a(x=f,a=b=
      <<"STR", "PARAM_OPEN", "STR", "PARAM_EQ", "STR", "PARAM_SEP", "STR", "PARAM_EQ", "STR", "PARAM_EQ">>,
      \* x->fork(){}
      <<"STR", "NEXT", "STR", "PARAM_OPEN", "PARAM_CLOSE", "OPEN", "CLOSE">>,
      \* a->[ x(){a->v()} }
      <<"STR", "NEXT", "BRACKET_OPEN", "STR", "PARAM_OPEN", "PARAM_CLOSE", "OPEN", "STR", "NEXT", "STR", "PARAM_OPEN", "PARAM_CLOSE", "CLOSE", "CLOSE">>
    }

\* Every token sequence up to MaxTokens, and the scripts of the tests.
TokenScripts ==
    UNION {[1..n -> TokenTypes] : n \in 0..MaxTokens} \cup TestScripts

TokensInit ==
    /\ tkIn = <<"STR">>
    /\ tkOut = NotParsed

TokensInitAny ==
    /\ tkIn \in TokenScripts
    /\ tkOut = NotParsed

\* Parser.Parse on the lexer's tokens
ParseTokens ==
    /\ tkOut = NotParsed
    /\ LET r == parseTokens(tkIn)
       IN  tkOut' = [res |-> r.res, err |-> r.err, done |-> TRUE]
    /\ UNCHANGED <<psIn, psOut, tkIn>>
    /\ UNCHANGED nonParseVars

TokensNext == ParseTokens

\* Parser.Parse
Parse ==
    /\ psOut = NotParsed
    /\ LET r == parsePipeline(psIn, 1, <<>>)
       IN  psOut' = [res |-> r.res, err |-> r.err, done |-> TRUE]
    /\ UNCHANGED <<psIn, tkIn, tkOut>>
    /\ UNCHANGED nonParseVars

ParseNext == Parse

-----------------------------------------------------------------------------
(* One Sample call on one processor or sink: what it returns and what it    *)
(* logs, given the outcome of its own step and of the calls to its sinks.   *)
(* An error is "nil" or <<"error", x>>; a call returns the list of the      *)
(* errors it reports (empty: nil).                                          *)

ErrKinds == {"noop", "simple", "output", "aggregate", "mux", "droperrors"}

\* query.BoolParam(params, name, default, ...): the parameter, if given.
BoolParam(params, name, default) ==
    IF name \in DOMAIN params THEN params[name] ELSE default

\* RegisterDropErrorsStep, part_001 lines 12-31: the flags of the
\* DropErrorsProcessor built from the parameters of the step.
DropErrorsFlags(params) ==
    LET logDebug == BoolParam(params, "log-debug", FALSE)
        logInfo == BoolParam(params, "log-info", FALSE)
        logWarn == BoolParam(params, "log-warn", FALSE)
        logError == BoolParam(params, "log", ~(logDebug \/ logInfo \/ logWarn))
    IN  {f \in {"LogError", "LogWarning", "LogInfo", "LogDebug"} :
            \/ f = "LogError" /\ logError
            \/ f = "LogWarning" /\ logWarn
            \/ f = "LogInfo" /\ logInfo
            \/ f = "LogDebug" /\ logDebug}

DropErrorsParams ==
    UNION {[names -> BOOLEAN] : names \in SUBSET {"log", "log-debug", "log-info", "log-warn"}}

\* The configurations of each kind.
ErrFlags(kind) ==
    CASE kind = "simple" -> {{}, {"NoProcess"}}
      [] kind = "output" -> SUBSET {"DropOutputErrors", "DontForwardSamples"}
      [] kind = "droperrors" -> {DropErrorsFlags(params) : params \in DropErrorsParams}
      [] OTHER -> {{}}

\* The error of the processor's own step, and fmt.Errorf("%s: Process function
\* is not set", p); the error of sink j is <<"error", j>>.
OwnError == <<"error", 0>>
NoProcessError == <<"error", -1>>

Returned(ret, log, called) == [ret |-> ret, log |-> log, called |-> called]

\* What the call to sink j returned (downs[j]: it failed), and the same as a
\* list.
DownResult(downs, j) == IF downs[j] THEN <<"error", j>> ELSE "nil"
Down(downs, j) == IF downs[j] THEN <<<<"error", j>>>> ELSE <<>>

\* NoopProcessor.Sample, sample_processor.go lines 140-142
NoopProcessorSample(downs) == Returned(Down(downs, 1), <<>>, 1)

\* SimpleProcessor.Sample, lines 199-209; own: what Process returned.
SimpleProcessorSample(flags, own, downs) ==
    IF "NoProcess" \in flags THEN Returned(<<NoProcessError>>, <<>>, 0)
    ELSE IF own = "err" THEN Returned(<<OwnError>>, <<>>, 0)
    ELSE IF own = "drop" THEN Returned(<<>>, <<>>, 0)
    ELSE NoopProcessorSample(downs)

AbstractSampleOutputSample_Silent(flags, own, downs) ==
    IF "DontForwardSamples" \in flags THEN Returned(<<>>, <<>>, 0)
    ELSE Returned(Down(downs, 1), <<>>, 1)

\* AbstractSampleOutput.Sample, lines 59-71; own: the error of writing the
\* sample, handed in by the output.
AbstractSampleOutputSample(flags, own, downs) ==
    IF own = "err" /\ "DropOutputErrors" \notin flags
      THEN Returned(<<OwnError>>, <<>>, 0)
    ELSE LET log == IF own = "err" THEN <<<<"error", OwnError>>>> ELSE <<>>
         IN  IF "DontForwardSamples" \in flags THEN Returned(<<>>, log, 0)
             ELSE Returned(Down(downs, 1), log, 1)

RECURSIVE AggregateLoop(_, _, _)
\* The loop of AggregateSink.Sample (transport.go 136-140) and of
\* sinkMultiplexer.Sample (part_003 149-156) from sink j on.
AggregateLoop(downs, j, errors) ==
    IF j > Len(downs) THEN errors
    ELSE AggregateLoop(downs, j + 1, MultiErrorAdd(errors, DownResult(downs, j)))

\* AggregateSink.Sample, transport.go lines 134-142
AggregateSinkSample(downs) ==
    Returned(NilOrError(AggregateLoop(downs, 1, <<>>)), <<>>, Len(downs))

\* SampleFork.Sample, part_003 lines 57-63; own: what Distribute returned.
ForkSampleCall(own, downs) ==
    IF own = "err" THEN Returned(<<OwnError>>, <<>>, 0)
    ELSE AggregateSinkSample(downs)

\* The level DropErrorsProcessor.Sample logs at, part_001 lines 48-56.
DropLevel(flags) ==
    IF "LogError" \in flags THEN "error"
    ELSE IF "LogWarning" \in flags THEN "warning"
    ELSE IF "LogInfo" \in flags THEN "info"
    ELSE IF "LogDebug" \in flags THEN "debug"
    ELSE "none"

DropErrorsSample_Unlogged(flags, downs) ==
    IF DropLevel(flags) = "none" THEN NoopProcessorSample(downs)
    ELSE Returned(<<>>, <<>>, 1)

\* DropErrorsProcessor.Sample, part_001 lines 45-59
DropErrorsSample(flags, downs) ==
    LET r == NoopProcessorSample(downs)
    IN  Returned(<<>>,
                 IF r.ret # <<>> /\ DropLevel(flags) # "none"
                   THEN <<<<DropLevel(flags), r.ret[1]>>>> ELSE <<>>,
                 r.called)

NotCalled ==
    [ret |-> <<>>, log |-> <<>>, called |-> 0, own |-> "pass", downs |-> <<>>, done |-> FALSE]

ErrInit ==
    /\ eKind = "noop"
    /\ eFlags = {}
    /\ eOut = NotCalled

ErrInitAny ==
    /\ eKind \in ErrKinds
    /\ eFlags \in ErrFlags(eKind)
    /\ eOut = NotCalled

\* The outcomes of the sinks' Sample (TRUE: an error): one sink, or up to
\* MaxBranches sinks of an AggregateSink or sinkMultiplexer.
DownOutcomes(kind) ==
    IF kind \in {"aggregate", "mux"}
      THEN UNION {[1..n -> BOOLEAN] : n \in 0..MaxBranches}
    ELSE [1..1 -> BOOLEAN]

\* The outcomes of the own step: Process, the output, Distribute.
OwnOutcomes(kind) ==
    CASE kind = "simple" -> {"pass", "drop", "err"}
      [] kind \in {"output", "mux"} -> {"pass", "err"}
      [] OTHER -> {"pass"}

\* Sample is called once.
SampleCall(own, downs) ==
    /\ ~eOut.done
    /\ own \in OwnOutcomes(eKind)
    /\ downs \in DownOutcomes(eKind)
    /\ LET r == CASE eKind = "noop" -> NoopProcessorSample(downs)
                  [] eKind = "simple" -> SimpleProcessorSample(eFlags, own, downs)
                  [] eKind = "output" -> AbstractSampleOutputSample(eFlags, own, downs)
                  [] eKind = "aggregate" -> AggregateSinkSample(downs)
                  [] eKind = "mux" -> ForkSampleCall(own, downs)
                  [] OTHER -> DropErrorsSample(eFlags, downs)
       IN  eOut' = [ret |-> r.ret, log |-> r.log, called |-> r.called,
                    own |-> own, downs |-> downs, done |-> TRUE]
    /\ UNCHANGED <<eKind, eFlags>>
    /\ UNCHANGED <<coreVars, sphereVars, headVars, closeVars, bsVars>>

ErrNext ==
    \E own \in {"pass", "drop", "err"} :
      \E downs \in DownOutcomes("aggregate") \cup DownOutcomes("noop") :
        SampleCall(own, downs)

-----------------------------------------------------------------------------
(* SpherePoints (steps/math/sphere.go) and the strip step (part_004): the   *)
(* source passes samples with one and the same header.  A header is known   *)
(* by its Fields; a point on the sphere by its centre and the radius.       *)

MaxSphereSamples == 2
MaxPoints == 2

\* The headers of the source: up to three fields.
SphereHeaders == {<<>>, <<"a">>, <<"a", "b">>, <<"a", "b", "c">>}

\* RegisterSphere, sphere.go lines 17-57: 'radius' gives a fixed radius and
\* RadiusMetric -1, 'radius_metric' gives the index of the metric.
SphereConfs ==
    {[RadiusMetric |-> -1, Radius |-> 5, NumPoints |-> n] : n \in 0..MaxPoints}
      \cup {[RadiusMetric |-> m, Radius |-> 0, NumPoints |-> n] :
               m \in -1..3, n \in 0..MaxPoints}

\* copy(s[i:], s[i+1:]) on a Go slice (i counted from 0): the elements behind
\* place i move one place to the front, the last one stays where it is.
CopyShift_Fresh(sl, i) == sl
CopyShift(sl, i) ==
    [k \in 1..Len(sl) |-> IF k > i /\ k < Len(sl) THEN sl[k + 1] ELSE sl[k]]

\* s[:len(s)-1]
DropLast(sl) == SubSeq(sl, 1, Len(sl) - 1)

\* The values of the k-th sample of the source, one per field.
SampleValues(k, n) == [i \in 1..n |-> 10 * k + i]

NoSphereCall ==
    [before |-> <<>>, vals |-> <<>>, ret |-> "nil", out |-> <<>>, done |-> FALSE]

SphereInit ==
    /\ spKind = "strip"
    /\ spConf = [RadiusMetric |-> -1, Radius |-> 5, NumPoints |-> 0]
    /\ spFields = <<>>
    /\ spSent = 0
    /\ spCall = NoSphereCall

SphereInitAny ==
    /\ spKind \in {"sphere", "strip"}
    /\ spConf \in IF spKind = "sphere" THEN SphereConfs
                  ELSE {[RadiusMetric |-> -1, Radius |-> 5, NumPoints |-> 0]}
    /\ spFields \in SphereHeaders
    /\ spSent = 0
    /\ spCall = NoSphereCall

\* The points passed on before the sink fails at the failAt-th (0: never).
Forwarded(n, failAt, point) ==
    [k \in 1..(IF failAt = 0 \/ failAt > n THEN n ELSE failAt) |-> point]

\* SpherePoints.Sample, sphere.go lines 75-106, on the source's next sample.
SpherePointsSample(failAt) ==
    /\ spKind = "sphere"
    /\ spSent < MaxSphereSamples
    /\ LET vals == SampleValues(spSent + 1, Len(spFields))
           rm == spConf.RadiusMetric
           call == [before |-> spFields, vals |-> vals, ret |-> "nil", out |-> <<>>,
                    done |-> TRUE]
       IN  IF Len(spFields) < 1
             THEN /\ spCall' = [call EXCEPT !.ret = "Cannot calculate sphere points with 0 metrics"]
                  /\ UNCHANGED spFields
           ELSE IF rm < 0 \/ rm >= Len(vals)
             THEN /\ spCall' = [call EXCEPT !.ret = "SpherePoints.RadiusMetrics out of range"]
                  /\ UNCHANGED spFields
           ELSE LET radius == IF rm >= 0 THEN vals[rm + 1] ELSE spConf.Radius
                    fields == IF rm >= 0 THEN CopyShift(spFields, rm) ELSE spFields
                    values == IF rm >= 0 THEN CopyShift(vals, rm) ELSE vals
                    point == [fields |-> IF rm >= 0 THEN DropLast(fields) ELSE fields,
                              values |-> IF rm >= 0 THEN DropLast(values) ELSE values,
                              radius |-> radius]
                    out == Forwarded(spConf.NumPoints, failAt, point)
                IN  /\ spFields' = fields
                    /\ spCall' = [call EXCEPT
                                    !.out = out,
                                    !.ret = IF failAt \in 1..spConf.NumPoints
                                              THEN "sink error" ELSE "nil"]
    /\ spSent' = spSent + 1
    /\ UNCHANGED <<spKind, spConf>>
    /\ UNCHANGED <<coreVars, errVars, headVars, closeVars, bsVars>>

\* The strip step, part_004 lines 264-271, under SimpleProcessor.Sample:
\* a sample without values under header.Clone(nil).
StripSample(fails) ==
    /\ spKind = "strip"
    /\ spSent < MaxSphereSamples
    /\ spCall' = [before |-> spFields,
                  vals |-> SampleValues(spSent + 1, Len(spFields)),
                  ret |-> IF fails THEN "sink error" ELSE "nil",
                  out |-> <<[fields |-> <<>>, values |-> <<>>, radius |-> 0]>>,
                  done |-> TRUE]
    /\ spSent' = spSent + 1
    /\ UNCHANGED <<spKind, spConf, spFields>>
    /\ UNCHANGED <<coreVars, errVars, headVars, closeVars, bsVars>>

SphereNext ==
    \/ \E failAt \in 0..MaxPoints : SpherePointsSample(failAt)
    \/ \E fails \in BOOLEAN : StripSample(fails)

-----------------------------------------------------------------------------
(* The head step: part_004 lines 190-207, a SimpleProcessor whose Process   *)
(* function counts the samples it has let through.                          *)

MaxHeadNum == 2
MaxHeadSamples == 4

\* The samples of the source are known by their value.
HeadSampleValues == {1, 2}

HeadInit ==
    /\ hdNum = 0
    /\ hdProcessed = 0
    /\ hdIn = <<>>
    /\ hdOut = <<>>
    /\ hdRet = <<>>

\* pick_head: num is what strconv.Atoi made of the parameter, processed := 0.
HeadInitAny ==
    /\ hdNum \in -1..MaxHeadNum
    /\ hdProcessed = 0
    /\ hdIn = <<>>
    /\ hdOut = <<>>
    /\ hdRet = <<>>

\* The test of the Process function: the sample passes.
HeadPasses_AtMost(num, processed) == num >= processed
HeadPasses(num, processed) == num > processed

\* SimpleProcessor.Sample with the Process function of pick_head on sample v;
\* sinkFails is the answer of the sink when the sample reaches it.
HeadSample(v, sinkFails) ==
    /\ Len(hdIn) < MaxHeadSamples
    /\ hdIn' = Append(hdIn, v)
    /\ IF HeadPasses(hdNum, hdProcessed)
         THEN /\ hdProcessed' = hdProcessed + 1
              /\ hdOut' = Append(hdOut, v)
              /\ hdRet' = Append(hdRet, IF sinkFails THEN "sink error" ELSE "nil")
         ELSE /\ hdRet' = Append(hdRet, "nil")
              /\ UNCHANGED <<hdProcessed, hdOut>>
    /\ UNCHANGED hdNum
    /\ UNCHANGED <<coreVars, errVars, sphereVars, closeVars, bsVars>>

HeadNext == \E v \in HeadSampleValues, sinkFails \in BOOLEAN : HeadSample(v, sinkFails)

-----------------------------------------------------------------------------
(* AbstractMetricSource.CloseSink, transport.go lines 65-78, step by step,  *)
(* with the goroutine it starts, other users of the wait group and a caller *)
(* of wg.Wait().                                                            *)

MaxOthers == 1
MaxCloseSteps == 2

CloseSinkInit ==
    /\ csSink = FALSE
    /\ csWg = FALSE
    /\ csPc = "returned"
    /\ csCount = 0
    /\ csOthers = 0
    /\ csGo = "none"
    /\ csClose = "no"
    /\ csLeft = 0
    /\ csWait = "none"
    /\ csWaitAfter = FALSE

\* A source with or without a sink, about to call CloseSink with or without a
\* wait group; the wait group may have other tasks registered.
CloseSinkInitAny ==
    /\ csSink \in BOOLEAN
    /\ csWg \in BOOLEAN
    /\ csPc = "start"
    /\ csOthers \in 0..(IF csWg THEN MaxOthers ELSE 0)
    /\ csCount = csOthers
    /\ csGo = "none"
    /\ csClose = "no"
    /\ csLeft \in 0..MaxCloseSteps
    /\ csWait = "none"
    /\ csWaitAfter = FALSE

closeRest == <<coreVars, errVars, sphereVars, headVars, bsVars>>

\* Lines 67-68: the two tests.
CloseSinkTest ==
    /\ csPc = "start"
    /\ csPc' = IF ~csSink THEN "returned" ELSE IF ~csWg THEN "inline" ELSE "add"
    /\ UNCHANGED <<csSink, csWg, csCount, csOthers, csGo, csClose, csLeft, csWait, csWaitAfter>>
    /\ UNCHANGED closeRest

\* Line 69: s.OutgoingSink.Close() is called by the caller itself.
CloseSinkInline ==
    /\ csPc = "inline"
    /\ csClose' = "running"
    /\ csPc' = "inclose"
    /\ UNCHANGED <<csSink, csWg, csCount, csOthers, csGo, csLeft, csWait, csWaitAfter>>
    /\ UNCHANGED closeRest

\* The inline Close has returned, and so does CloseSink.
CloseSinkInlineReturn ==
    /\ csPc = "inclose"
    /\ csClose = "returned"
    /\ csPc' = "returned"
    /\ UNCHANGED <<csSink, csWg, csCount, csOthers, csGo, csClose, csLeft, csWait, csWaitAfter>>
    /\ UNCHANGED closeRest

\* Line 71: wg.Add(1).
CloseSinkAdd_Skipped ==
    /\ csPc = "add"
    /\ csPc' = "go"
    /\ UNCHANGED <<csSink, csWg, csCount, csOthers, csGo, csClose, csLeft, csWait, csWaitAfter>>
    /\ UNCHANGED closeRest

CloseSinkAdd ==
    /\ csPc = "add"
    /\ csCount' = csCount + 1
    /\ csPc' = "go"
    /\ UNCHANGED <<csSink, csWg, csOthers, csGo, csClose, csLeft, csWait, csWaitAfter>>
    /\ UNCHANGED closeRest

\* Lines 72-75: the go statement; CloseSink returns.
CloseSinkGo ==
    /\ csPc = "go"
    /\ csGo' = "ready"
    /\ csPc' = "returned"
    /\ UNCHANGED <<csSink, csWg, csCount, csOthers, csClose, csLeft, csWait, csWaitAfter>>
    /\ UNCHANGED closeRest

\* Line 74, in the goroutine: s.OutgoingSink.Close() is called.
GoroutineClose ==
    /\ csGo = "ready"
    /\ csGo' = "closing"
    /\ csClose' = "running"
    /\ UNCHANGED <<csSink, csWg, csPc, csCount, csOthers, csLeft, csWait, csWaitAfter>>
    /\ UNCHANGED closeRest

\* The sink's Close works its way down the pipeline and returns.
SinkCloseStep ==
    /\ csClose = "running"
    /\ IF csLeft > 0
         THEN csLeft' = csLeft - 1 /\ UNCHANGED csClose
         ELSE csClose' = "returned" /\ UNCHANGED csLeft
    /\ UNCHANGED <<csSink, csWg, csPc, csCount, csOthers, csGo, csWait, csWaitAfter>>
    /\ UNCHANGED closeRest

\* Line 73: the deferred wg.Done() runs when Close has returned.
GoroutineDone ==
    /\ csGo = "closing"
    /\ csClose = "returned"
    /\ csGo' = "done"
    /\ csCount' = csCount - 1
    /\ UNCHANGED <<csSink, csWg, csPc, csOthers, csClose, csLeft, csWait, csWaitAfter>>
    /\ UNCHANGED closeRest

\* Another task registered with wg calls wg.Done().
OtherDone ==
    /\ csOthers > 0
    /\ csOthers' = csOthers - 1
    /\ csCount' = csCount - 1
    /\ UNCHANGED <<csSink, csWg, csPc, csGo, csClose, csLeft, csWait, csWaitAfter>>
    /\ UNCHANGED closeRest

\* Somebody calls wg.Wait().
WaitStart ==
    /\ csWg
    /\ csWait = "none"
    /\ csWait' = "waiting"
    /\ csWaitAfter' = (csPc = "returned")
    /\ UNCHANGED <<csSink, csWg, csPc, csCount, csOthers, csGo, csClose, csLeft>>
    /\ UNCHANGED closeRest

\* sync.WaitGroup.Wait returns when the counter is zero.
WaitReturn ==
    /\ csWait = "waiting"
    /\ csCount = 0
    /\ csWait' = "returned"
    /\ UNCHANGED <<csSink, csWg, csPc, csCount, csOthers, csGo, csClose, csLeft, csWaitAfter>>
    /\ UNCHANGED closeRest

CloseSinkNext ==
    \/ CloseSinkTest
    \/ CloseSinkInline
    \/ CloseSinkInlineReturn
    \/ CloseSinkAdd
    \/ CloseSinkGo
    \/ GoroutineClose
    \/ SinkCloseStep
    \/ GoroutineDone
    \/ OtherDone
    \/ WaitStart
    \/ WaitReturn

-----------------------------------------------------------------------------
(* One BufferedSample, transport.go lines 157-185, with several goroutines  *)
(* calling WaitDone and NotifyDone on it at any time, and a stream whose    *)
(* error can be set.                                                        *)

MaxWaiters == 2
MaxNotifiers == 2

Waiters == 1..MaxWaiters
Notifiers == (MaxWaiters + 1)..(MaxWaiters + MaxNotifiers)

BufferedSampleInit ==
    /\ bsErr = "nil"
    /\ bsDone = FALSE
    /\ bsLock = 0
    /\ bsPc = [c \in Waiters \cup Notifiers |-> "idle"]
    /\ bsRet = [w \in Waiters |-> "none"]
    /\ bsHow = [w \in Waiters |-> "none"]
    /\ bsSet = 0

bsRest == <<coreVars, errVars, sphereVars, headVars, closeVars>>

\* A goroutine calls sample.WaitDone().
WaitDoneCall(w) ==
    /\ bsPc[w] = "idle"
    /\ bsPc' = [bsPc EXCEPT ![w] = "wd_check"]
    /\ bsHow' = [bsHow EXCEPT ![w] = IF bsDone THEN "late" ELSE "early"]
    /\ UNCHANGED <<bsErr, bsDone, bsLock, bsRet, bsSet>>
    /\ UNCHANGED bsRest

\* WaitDone, lines 166-168: with an error set, return it without locking.
SampleWaitDoneCheck(w) ==
    /\ bsPc[w] = "wd_check"
    /\ IF HasErrorValue(bsErr)
         THEN /\ bsRet' = [bsRet EXCEPT ![w] = bsErr]
              /\ bsPc' = [bsPc EXCEPT ![w] = "returned"]
         ELSE /\ bsRet' = bsRet
              /\ bsPc' = [bsPc EXCEPT ![w] = "wd_lock"]
    /\ UNCHANGED <<bsErr, bsDone, bsLock, bsHow, bsSet>>
    /\ UNCHANGED bsRest

\* WaitDone, line 169: sample.doneCond.L.Lock()
SampleWaitDoneLock(w) ==
    /\ bsPc[w] = "wd_lock"
    /\ bsLock = 0
    /\ bsLock' = w
    /\ bsPc' = [bsPc EXCEPT ![w] = "wd_loop"]
    /\ UNCHANGED <<bsErr, bsDone, bsRet, bsHow, bsSet>>
    /\ UNCHANGED bsRest

\* WaitDone, lines 171-172: the loop condition; doneCond.Wait() releases the
\* lock and parks the caller in one step.
SampleWaitDoneLoop(w) ==
    /\ bsPc[w] = "wd_loop"
    /\ IF WaitDoneMustWait(bsDone, bsErr)
         THEN /\ bsLock' = 0
              /\ bsPc' = [bsPc EXCEPT ![w] = "wd_parked"]
         ELSE /\ bsLock' = bsLock
              /\ bsPc' = [bsPc EXCEPT ![w] = "wd_final"]
    /\ UNCHANGED <<bsErr, bsDone, bsRet, bsHow, bsSet>>
    /\ UNCHANGED bsRest

\* doneCond.Wait() returning after a Broadcast: it takes the lock again.
SampleWaitDoneWake(w) ==
    /\ bsPc[w] = "wd_woken"
    /\ bsLock = 0
    /\ bsLock' = w
    /\ bsPc' = [bsPc EXCEPT ![w] = "wd_loop"]
    /\ UNCHANGED <<bsErr, bsDone, bsRet, bsHow, bsSet>>
    /\ UNCHANGED bsRest

SampleWaitDoneFinal_Nil(w) ==
    /\ bsPc[w] = "wd_final"
    /\ bsRet' = [bsRet EXCEPT ![w] = "nil"]
    /\ bsLock' = 0
    /\ bsPc' = [bsPc EXCEPT ![w] = "returned"]
    /\ UNCHANGED <<bsErr, bsDone, bsHow, bsSet>>
    /\ UNCHANGED bsRest

\* WaitDone, lines 174-177 and the deferred Unlock of line 170.
SampleWaitDoneFinal(w) ==
    /\ bsPc[w] = "wd_final"
    /\ bsRet' = [bsRet EXCEPT ![w] = IF HasErrorValue(bsErr) THEN bsErr ELSE "nil"]
    /\ bsLock' = 0
    /\ bsPc' = [bsPc EXCEPT ![w] = "returned"]
    /\ UNCHANGED <<bsErr, bsDone, bsHow, bsSet>>
    /\ UNCHANGED bsRest

\* A goroutine calls sample.NotifyDone().
NotifyDoneCall(n) ==
    /\ bsPc[n] = "idle"
    /\ bsPc' = [bsPc EXCEPT ![n] = "nd_lock"]
    /\ UNCHANGED <<bsErr, bsDone, bsLock, bsRet, bsHow, bsSet>>
    /\ UNCHANGED bsRest

\* NotifyDone, line 181: sample.doneCond.L.Lock()
SampleNotifyDoneLock(n) ==
    /\ bsPc[n] = "nd_lock"
    /\ bsLock = 0
    /\ bsLock' = n
    /\ bsPc' = [bsPc EXCEPT ![n] = "nd_set"]
    /\ UNCHANGED <<bsErr, bsDone, bsRet, bsHow, bsSet>>
    /\ UNCHANGED bsRest

SampleNotifyDone_Silent(n) ==
    /\ bsPc[n] = "nd_set"
    /\ bsDone' = TRUE
    /\ bsSet' = bsSet + 1
    /\ bsPc' = [bsPc EXCEPT ![n] = "returned"]
    /\ bsLock' = 0
    /\ UNCHANGED <<bsErr, bsRet, bsHow>>
    /\ UNCHANGED bsRest

\* NotifyDone, lines 182-184: done = true, Broadcast() makes every caller
\* parked in doneCond.Wait() runnable, deferred Unlock().
SampleNotifyDone(n) ==
    /\ bsPc[n] = "nd_set"
    /\ bsDone' = TRUE
    /\ bsSet' = bsSet + 1
    /\ bsPc' = [c \in Waiters \cup Notifiers |->
                  IF c = n THEN "returned" ELSE Broadcast(bsPc[c], 1, 1)]
    /\ bsLock' = 0
    /\ UNCHANGED <<bsErr, bsRet, bsHow>>
    /\ UNCHANGED bsRest

\* The stream's error is set (by a worker of the stream that failed).
StreamFails ==
    /\ bsErr = "nil"
    /\ bsErr' = "E1"
    /\ UNCHANGED <<bsDone, bsLock, bsPc, bsRet, bsHow, bsSet>>
    /\ UNCHANGED bsRest

\* The steps of the calls on the sample.
SampleCalls ==
    \/ \E w \in Waiters : WaitDoneCall(w)
    \/ \E w \in Waiters : SampleWaitDoneCheck(w)
    \/ \E w \in Waiters : SampleWaitDoneLock(w)
    \/ \E w \in Waiters : SampleWaitDoneLoop(w)
    \/ \E w \in Waiters : SampleWaitDoneWake(w)
    \/ \E w \in Waiters : SampleWaitDoneFinal(w)
    \/ \E n \in Notifiers : NotifyDoneCall(n)
    \/ \E n \in Notifiers : SampleNotifyDoneLock(n)
    \/ \E n \in Notifiers : SampleNotifyDone(n)

BufferedSampleNext == SampleCalls \/ StreamFails

StepInit == ErrInit /\ SphereInit /\ HeadInit /\ CloseSinkInit /\ BufferedSampleInit

-----------------------------------------------------------------------------
(* Specifications *)

Init == StreamInit /\ ForkInit /\ PipeInit /\ CsvInit /\ NestInit /\ GroupInit /\ TcpInit /\ AstInit /\ ParseInit /\ StepInit

SpecStream == Init /\ [][StreamNext]_vars

\* Every goroutine of the stream that can take a step eventually does: the Go
\* scheduler runs each runnable goroutine, and a goroutine blocked on a
\* channel or a mutex proceeds once the operation stays possible.
StreamFairness ==
    /\ WF_vars(ReaderPushOut) /\ WF_vars(ReaderPushIn) /\ WF_vars(ReaderStop)
    /\ \A w \in Workers :
          /\ WF_vars(WorkerTake(w)) /\ WF_vars(WorkerExit(w))
          /\ WF_vars(\E ok \in BOOLEAN : WorkerStep(w, ok))
          /\ WF_vars(NotifyDoneLock(w)) /\ WF_vars(NotifyDone(w))
    /\ WF_vars(ConsumerTake) /\ WF_vars(ConsumerExit) /\ WF_vars(WaitDoneCheck)
    /\ WF_vars(WaitDoneLock) /\ WF_vars(WaitDoneLoop) /\ WF_vars(WaitDoneWake)
    /\ WF_vars(WaitDoneFinal) /\ WF_vars(ConsumerEmit)

SpecStreamFair == Init /\ [][StreamNext]_vars /\ StreamFairness

SpecFork == Init /\ [][ForkNext]_vars

InitPipe == StreamInit /\ ForkInit /\ PipeInitAny /\ CsvInit /\ NestInit /\ GroupInit /\ TcpInit /\ AstInit /\ ParseInit /\ StepInit

SpecPipe == InitPipe /\ [][PipeNext]_vars

InitPlot == StreamInit /\ ForkInit /\ PlotInit /\ CsvInit /\ NestInit /\ GroupInit /\ TcpInit /\ AstInit /\ ParseInit /\ StepInit
SpecPlot == InitPlot /\ [][PlotNext]_vars

InitCsv == StreamInit /\ ForkInit /\ PipeInit /\ CsvInitAny /\ NestInit /\ GroupInit /\ TcpInit /\ AstInit /\ ParseInit /\ StepInit

SpecCsv == InitCsv /\ [][CsvNext]_vars

InitCsvInput == StreamInit /\ ForkInit /\ PipeInit /\ CsvInitInput /\ NestInit /\ GroupInit /\ TcpInit /\ AstInit /\ ParseInit /\ StepInit
SpecCsvInput == InitCsvInput /\ [][CsvInputNext]_vars

InitNest == StreamInit /\ ForkInit /\ PipeInit /\ CsvInit /\ NestInitAny /\ GroupInit /\ TcpInit /\ AstInit /\ ParseInit /\ StepInit

SpecNest == InitNest /\ [][NestNext]_vars

InitGroup == StreamInit /\ ForkInit /\ PipeInit /\ CsvInit /\ NestInit /\ GroupInitAny /\ TcpInit /\ AstInit /\ ParseInit /\ StepInit
SpecGroup == InitGroup /\ [][GroupNext]_vars

InitTcp ==
    /\ StreamInit /\ ForkInit /\ PipeInit /\ CsvInit /\ NestInit /\ GroupInit
    /\ TcpInitAny /\ AstInit /\ ParseInit /\ StepInit
SpecTcp == InitTcp /\ [][TcpNext]_vars

InitAst ==
    /\ StreamInit /\ ForkInit /\ PipeInit /\ CsvInit /\ NestInit /\ GroupInit
    /\ TcpInit /\ AstInitAny /\ ParseInit /\ StepInit
SpecAst == InitAst /\ [][AstNext]_vars

InitParse ==
    /\ StreamInit /\ ForkInit /\ PipeInit /\ CsvInit /\ NestInit /\ GroupInit
    /\ TcpInit /\ AstInit /\ ParseInitAny /\ StepInit
SpecParse == InitParse /\ [][ParseNext]_vars

InitTokens ==
    /\ StreamInit /\ ForkInit /\ PipeInit /\ CsvInit /\ NestInit /\ GroupInit
    /\ TcpInit /\ AstInit
    /\ psIn = <<Words(<<"x">>)>> /\ psOut = NotParsed /\ TokensInitAny /\ StepInit
SpecTokens == InitTokens /\ [][TokensNext]_vars

\* The state of the subsystems above, at rest.
CoreInit ==
    /\ StreamInit /\ ForkInit /\ PipeInit /\ CsvInit /\ NestInit /\ GroupInit
    /\ TcpInit /\ AstInit /\ ParseInit

InitErr == CoreInit /\ ErrInitAny /\ SphereInit /\ HeadInit /\ CloseSinkInit /\ BufferedSampleInit
SpecErr == InitErr /\ [][ErrNext]_vars

InitSphere == CoreInit /\ ErrInit /\ SphereInitAny /\ HeadInit /\ CloseSinkInit /\ BufferedSampleInit
SpecSphere == InitSphere /\ [][SphereNext]_vars

InitHead == CoreInit /\ ErrInit /\ SphereInit /\ HeadInitAny /\ CloseSinkInit /\ BufferedSampleInit
SpecHead == InitHead /\ [][HeadNext]_vars

InitCloseSink == CoreInit /\ ErrInit /\ SphereInit /\ HeadInit /\ CloseSinkInitAny /\ BufferedSampleInit
SpecCloseSink == InitCloseSink /\ [][CloseSinkNext]_vars

SpecSample == Init /\ [][BufferedSampleNext]_vars

\* The Go scheduler runs every runnable goroutine, and a goroutine blocked on
\* the mutex proceeds once it stays free.  The first NotifyDone call is made;
\* whether and when the other calls are made is left open.
SampleFairness ==
    /\ WF_vars(NotifyDoneCall(MaxWaiters + 1))
    /\ \A n \in Notifiers : WF_vars(SampleNotifyDoneLock(n)) /\ WF_vars(SampleNotifyDone(n))
    /\ \A w \in Waiters :
          /\ WF_vars(SampleWaitDoneCheck(w)) /\ WF_vars(SampleWaitDoneLock(w))
          /\ WF_vars(SampleWaitDoneLoop(w)) /\ WF_vars(SampleWaitDoneWake(w))
          /\ WF_vars(SampleWaitDoneFinal(w))

\* The same calls on a stream that never fails.
SpecSampleFair == Init /\ [][SampleCalls]_vars /\ SampleFairness

-----------------------------------------------------------------------------
(* Claims *)

\* C1: the consumer emits the samples in exactly the order the reader produced
\* them (ids 1, 2, ...), none before its done flag is set and none twice.
C1_OrderedEmission ==
    \A i \in 1..Len(emitted) : emitted[i] = i /\ done[emitted[i]]

\* C1 witness: all samples were emitted although the workers finished the
\* second sample before the first.
C1_Witness ==
    /\ Len(emitted) = NumSamples
    /\ doneOrder[1] # 1

\* C2: once the stream's error is set, no WaitDone call keeps waiting for its
\* sample's done flag: none stays parked in doneCond.Wait().
C2_StickyErrorImmediate ==
    HasError => cpc # "wd_parked"

\* C3: deep-clone isolation: the caller's original sample is never changed by a
\* sub-pipeline, every sub-pipeline is handed the content the caller passed in
\* (no sibling's change is visible in it), and the sample a sub-pipeline holds
\* carries no change but its own.
C3_DeepCloneIsolation ==
    \A c \in Callers :
        /\ fpc[c] # "idle" =>
              /\ store[OrigSample(c).vals] = "clean"
              /\ store[OrigSample(c).tags] = "clean"
        /\ \A k \in 1..Len(delivered[c]) :
              LET d == delivered[c][k]
              IN  /\ d.vals = "clean"
                  /\ d.tags = "clean"
                  /\ store[d.sample.vals] = <<"dirty", d.j>>
                  /\ store[d.sample.tags] = <<"dirty", d.j>>

\* C3 witness: one sample was delivered to two sub-pipelines, both of which
\* changed the sample they were handed.
C3_Witness ==
    \E c \in Callers :
        /\ fpc[c] = "returned"
        /\ Len(delivered[c]) = 2
        /\ delivered[c][1].step.tmpl # delivered[c][2].step.tmpl
        /\ store[delivered[c][1].sample.vals] = <<"dirty", 1>>
        /\ store[delivered[c][2].sample.tags] = <<"dirty", 2>>

\* C4: every sub-pipeline template is initialized at most once, whatever the
\* keys it is requested under and however the Sample calls interleave, and
\* every use gets the first step cached at the first use.
C4_InitializedOnce ==
    /\ \A tp \in Templates : initCount[tp] <= 1
    /\ \A c \in Callers : \A i \in 1..Len(sinks[c]) :
          /\ sinks[c][i] = [tmpl |-> requested[c][i], gen |-> 1]
          /\ requested[c][i] \in DOMAIN pipelines
          /\ pipelines[requested[c][i]].firstStep = sinks[c][i]

\* C4 witness: two goroutines got the same first step of template tA, which was
\* initialized once although it was requested under two keys.
C4_Witness ==
    /\ reuseLogged
    /\ initCount["tA"] = 1
    /\ \A c \in Callers :
          /\ fpc[c] = "mux"
          /\ Len(sinks[c]) >= 1
          /\ sinks[c][1] = pipelines["tA"].firstStep

\* C10: when the fork's Sample call returns from the fan-out, the sample was
\* delivered to every selected sub-pipeline, also after a failed one, and the
\* result is nil exactly when no sub-pipeline failed and otherwise holds every
\* sub-pipeline's error.
C10_ErrorAccumulation ==
    \A c \in Callers :
        (fpc[c] = "returned" /\ fret[c] # <<"distribute">>) =>
            /\ Len(delivered[c]) = Len(requested[c])
            /\ Len(fresults[c]) = Len(requested[c])
            /\ \A i \in 1..Len(delivered[c]) : delivered[c][i].step.tmpl = requested[c][i]
            /\ (fret[c] = <<>>) <=> (\A i \in 1..Len(fresults[c]) : fresults[c][i] = "nil")
            /\ \A i \in 1..Len(fresults[c]) :
                  fresults[c][i] # "nil" =>
                      \E k \in 1..Len(fret[c]) : fret[c][k] = fresults[c][i]

\* C10 witness: the first of two sub-pipelines failed, the second was still
\* served, and the call returned the first one's error.
C10_Witness ==
    \E c \in Callers :
        /\ fpc[c] = "returned"
        /\ Len(fresults[c]) = 2
        /\ fresults[c][1] # "nil"
        /\ fresults[c][2] = "nil"
        /\ Len(delivered[c]) = 2
        /\ fret[c] = <<fresults[c][1]>>

\* The stages on which Close has been invoked, in the order of invocation.
CloseOrder == SelectSeq(closeLog, LAMBDA e : e[1] = "close")

C6_SourceOrder ==
    (\A i \in 1..Len(stages) : stages[i] # "dropping") =>
        \A i \in 1..SinkIdx : \A k \in 1..Len(seen[i]) : \A m \in 1..Len(seen[i]) :
            k < m => seen[i][k] < seen[i][m]

\* C6 witness: behind a SimpleProcessor and a DropErrorsProcessor the terminal
\* sink got samples 1 and 3, sample 2 having been dropped.
C6_Witness ==
    /\ stages = <<"simple", "droperrors">>
    /\ seen[SinkIdx] = <<1, 3>>
    /\ seen[1] = <<1, 2, 3>>

\* The Close cascade started by the source has returned.
CloseReturned == srcState # "running" /\ closing = 0

\* C18: Close of every processor does its clean-up and then closes its sink:
\* an event of stage i is never logged after Close was invoked on stage i+1,
\* and when the cascade has returned Close was invoked on the terminal sink.
C18_CloseReachesSink ==
    /\ \A j \in 1..Len(closeLog) : \A k \in 1..Len(closeLog) :
          (j < k /\ closeLog[j][1] = "close") => closeLog[k][2] >= closeLog[j][2]
    /\ CloseReturned => \E j \in 1..Len(closeLog) : closeLog[j] = <<"close", SinkIdx>>

-----------------------------------------------------------------------------
(* Parallel sample stream: cancellation *)

\* The reader has stopped, every worker and the consumer have left their loop.
StreamTerminated ==
    /\ rpc = "stopped"
    /\ \A w \in Workers : wpc[w] = "exit"
    /\ cpc = "exit"

-----------------------------------------------------------------------------
(* CSV marshaller *)

\* C7: ReadSample on the line WriteSample wrote for a sample under the same
\* header returns, without error, a sample with the same time, tags and values,
\* for every sample that has as many values as the header has fields and whose
\* tags the header can carry (HasTags, or a sample without tags).
C7_RoundTrip ==
    ( /\ rd.op = "ReadSample"
      /\ rdInput = WriteSample(csvSample, csvHeader)
      /\ Len(csvSample.Values) = Len(csvHeader.Fields)
      /\ (csvHeader.HasTags \/ csvSample.Tags = <<>>) )
    => (rd.err = "nil" /\ rd.sample = csvSample)

\* C8: ReadSample returns an error for every complete line whose number of
\* value columns differs from the number of fields of the header.
C8_SchemaChecked ==
    ( /\ rd.op = "ReadSample"
      /\ rdInput # <<>>
      /\ rdInput[Len(rdInput)] = csv_newline
      /\ rd.err = "nil" )
    => Len(rd.sample.Values) = Len(csvHeader.Fields)

\* C9: ReadHeader and ReadSample return io.EOF when no input is left, and never
\* return a header or a sample (a nil error) for input that ends before the
\* newline of its line.
C9_EofHandling ==
    rd.op # "none" =>
        /\ (rdInput = <<>> => rd.err = "EOF")
        /\ ( (rdInput # <<>> /\ \A k \in 1..Len(rdInput) : rdInput[k] # csv_newline)
             => rd.err # "nil" )

-----------------------------------------------------------------------------
(* Nested forks *)

\* The sub-pipeline of template t has been instantiated by its fork.
Instantiated(t) ==
    \E k \in DOMAIN nCache[Owner(t)] : nCache[Owner(t)][k].pipe = t

\* Every sub-pipeline of fork f that got a sample forwards each sample it
\* receives: it consists of NoopProcessors only and is constructed, or is empty.
AllForward(f) ==
    \A t \in NTemplates :
        (Owner(t) = f /\ nReceived[t] # <<>>) =>
            /\ \A i \in 1..Len(Steps(t)) : Steps(t)[i] = "noop"
            /\ (nPipe[t].started \/ Steps(t) = <<>>)

C12_StartedBeforeFirstSample ==
    \A t \in NTemplates : nReceived[t] # <<>> => nPipe[t].started

\* C13: a sub-pipeline that terminated with an error is removed from the cache
\* of its fork, which keeps running, if NonfatalErrors is set; otherwise the
\* fork is stopped.
C13_FailedSubpipeline ==
    \A t \in nFailed :
        IF nNonfatal THEN ~Instantiated(t) /\ nStatus # "stopped"
        ELSE nStatus = "stopped"

\* C14: the last step of every instantiated sub-pipeline has a sink, the one
\* the ForkRemapper designates for its path or the merger of its fork, and no
\* sample has reached a step without a sink.
C14_SinkBound ==
    /\ ~nLost
    /\ \A t \in NTemplates :
          Instantiated(t) => LastStepSink(t, nPipe[t]).kind \in {"merger", "mapped"}

\* C15: the forks of a sub-pipeline instantiated for key k have the ForkPath of
\* the instantiating fork with k appended, in a slice of their own; the path of
\* the outermost fork stays empty.
C15_ForkPathAppended ==
    /\ PathOf(nPathRef["F"], nHeap) = <<>>
    /\ \A g \in {"G", "H"} :
          \A k \in DOMAIN nCache[Owner(Host(g).t)] :
              LET e == nCache[Owner(Host(g).t)][k]
                  f == Owner(Host(g).t)
              IN  e.pipe = Host(g).t =>
                    /\ PathOf(nPathRef[g], nHeap)
                         = Append(PathOf(nPathRef[f], nHeap), e.key)
                    /\ nPathRef[g] # nPathRef[f]

\* C15 witness: the fork nested two levels deep carries both keys.
C15_Witness ==
    /\ Instantiated("tC")
    /\ PathOf(nPathRef["G"], nHeap) = <<"k2">>
    /\ PathOf(nPathRef["H"], nHeap) = <<"k2", "k1">>

\* C16: once the sub-pipeline hosting a fork has received a sample, the fork
\* has a ForkPath, and no later step changes it.
C16_ForkPathFixed ==
    /\ [](\A g \in {"G", "H"} : nReceived[Host(g).t] # <<>> => nPathRef[g] # 0)
    /\ [][\A g \in {"G", "H"} :
             nReceived[Host(g).t] # <<>> =>
                 /\ nPathRef'[g] = nPathRef[g]
                 /\ PathOf(nPathRef[g], nHeap') = PathOf(nPathRef[g], nHeap)]_vars

\* C16 witness: the sub-pipeline started for key k1 got its second sample under
\* key k2, the path of its fork still ends with k1.
C16_Witness ==
    /\ nImpl = "SampleFork"
    /\ nReceived["tB"] = <<1, 2>>
    /\ nLastDist = <<[Pipe |-> "tB", Key |-> "k2"]>>
    /\ nCache["F"]["tB"].key = "k1"
    /\ PathOf(nPathRef["G"], nHeap) = <<"k1">>

\* C17: every sub-pipeline has received its samples in the order in which they
\* were passed to the fork, and the sub-pipelines selected for the last sample
\* were served in the order of the distributor.
C17_DistributorOrder ==
    /\ \A t \in NTemplates :
          \A i \in 1..Len(nReceived[t]) : \A j \in 1..Len(nReceived[t]) :
              i < j => nReceived[t][i] <= nReceived[t][j]
    /\ Len(nServed) <= Len(nLastDist)
    /\ \A j \in 1..Len(nServed) : nServed[j] = nLastDist[j].Pipe
    /\ nStatus # "panicked" => Len(nServed) = Len(nLastDist)

\* C17 witness: the second sample went to tB and then to tA, which had got the
\* first sample as well.
C17_Witness ==
    /\ nServed = <<"tB", "tA">>
    /\ nReceived["tA"] = <<1, 2>>
    /\ nReceived["tB"] = <<2>>

-----------------------------------------------------------------------------
(* Task group *)

\* The tasks that have terminated with a non-nil error.
FailedTasks == {t \in gMembers : gState[t] = "stopped" /\ gErr[t] # "nil"}

-----------------------------------------------------------------------------
(* TCP listener sink *)

\* The samples m+1 .. n in the order sent.
SentElems(m, n) == [i \in 1..(n - m) |-> m + i]

-----------------------------------------------------------------------------
(* AST lowering *)

Lowered == astOut # NotLowered
LoweredOk == Lowered /\ astOut.err.kind = "nil"

\* The position in the result of the step at position j of the script: a
\* synthetic input in front shifts the steps by one.
OutIdx(j) == IF astIn[1].type \in {"Input", "Pipelines"} THEN j ELSE j + 1

\* C23: after a successful Transform, a Pipelines step behind the head of the
\* script has become a Fork named "multiplex" with as many sub-pipelines, the
\* i-th being an Input with the one token i-1 in decimal followed by the
\* lowered steps of the i-th original sub-pipeline; the keys are distinct.
C23_MultiplexLowering ==
    LoweredOk =>
      \A j \in 2..Len(astIn) : astIn[j].type = "Pipelines" =>
        LET in == astIn[j].pipes
            out == astOut.res[OutIdx(j)]
        IN  /\ out.type = "Fork"
            /\ out.toks = <<"multiplex">>
            /\ Len(out.pipes) = Len(in)
            /\ \A i \in 1..Len(in) :
                  /\ out.pipes[i][1] = Input(<<DigitChars[i]>>)
                  /\ Tail(out.pipes[i]) = transformLoop(in[i], <<>>, astRej, <<>>).res
            /\ \A i \in 1..Len(in) : \A k \in 1..Len(in) :
                  i # k => out.pipes[i][1] # out.pipes[k][1]

\* C23 witness: in -> { a ; o } lowered to a multiplex fork with keys 0 and 1.
C23_Witness ==
    /\ astIn = <<Input(<<"x">>), Pipelines(<< <<Step("a")>>, <<Output("o")>> >>)>>
    /\ LoweredOk
    /\ astOut.res[2] = Fork("multiplex", << <<Input(<<"0">>), Step("a")>>,
                                           <<Input(<<"1">>), Output("o")>> >>)

StartsWithInput(pipe) == pipe # <<>> /\ pipe[1].type \in {"Input", "MultiInput"}

\* C24: after a successful Transform the result starts with an Input or a
\* MultiInput, every sub-pipeline of a head MultiInput starts with an input,
\* a script without head input got Input "empty://-" in front, and the other
\* steps are as many as before.
C24_StartsWithInput ==
    LoweredOk =>
      /\ StartsWithInput(astOut.res)
      /\ astOut.res[1].type = "MultiInput" =>
            \A i \in 1..Len(astOut.res[1].pipes) : StartsWithInput(astOut.res[1].pipes[i])
      /\ astIn[1].type \notin {"Input", "Pipelines"} =>
            /\ astOut.res[1] = Input(<<"empty://-">>)
            /\ Len(astOut.res) = Len(astIn) + 1
      /\ astIn[1].type \in {"Input", "Pipelines"} => Len(astOut.res) = Len(astIn)

RECURSIVE ExpectedCalls(_, _)
RECURSIVE ExpectedLoop(_)
RECURSIVE ExpectedSubs(_, _, _)

\* The verifications due for a script, in order: the inputs that head a
\* source pipeline, the outputs, steps and forks at every level, a multiplex
\* fork for every group behind the head.
ExpectedSubs(pipes, i, isInput) ==
    IF i > Len(pipes) THEN <<>>
    ELSE ExpectedCalls(pipes[i], isInput) \o ExpectedSubs(pipes, i + 1, isInput)

ExpectedLoop(steps) ==
    IF steps = <<>> THEN <<>>
    ELSE LET st == Head(steps)
             own == CASE st.type = "Output" -> <<<<"output", st.toks>>>>
                      [] st.type = "Step" -> <<<<"step", st.toks>>>>
                      [] st.type = "Fork" ->
                           <<<<"fork", st.toks>>>> \o ExpectedSubs(st.pipes, 1, FALSE)
                      [] st.type = "Pipelines" ->
                           <<<<"fork", <<"multiplex">>>>>> \o
                           ExpectedSubs([i \in 1..Len(st.pipes) |->
                                            <<Input(<<"key">>)>> \o st.pipes[i]], 1, FALSE)
                      [] OTHER -> <<>>
         IN  own \o ExpectedLoop(Tail(steps))

ExpectedCalls(pipe, isInput) ==
    IF pipe = <<>> THEN <<>>
    ELSE IF pipe[1].type = "Input"
      THEN (IF isInput THEN <<<<"input", pipe[1].toks>>>> ELSE <<>>) \o ExpectedLoop(Tail(pipe))
    ELSE IF pipe[1].type = "Pipelines" /\ isInput
      THEN ExpectedSubs(pipe[1].pipes, 1, TRUE) \o ExpectedLoop(Tail(pipe))
    ELSE ExpectedLoop(pipe)

Rejected(call) == \E i \in 1..Len(call[2]) : call[2][i] \in astRej

\* C25: the hook is called, in script order, for the inputs of the source
\* pipelines and for every output, step and fork at every level (the groups
\* as multiplex forks); no call follows a rejected one, a rejected call makes
\* Transform fail, and Transform succeeds only after all calls were made and
\* none was rejected.  The input in front of a fork's sub-pipeline is its key
\* and is not verified.
C25_VerifiedInOrder ==
    Lowered =>
      LET log == astOut.log
          all == ExpectedCalls(astIn, TRUE)
      IN  /\ Len(log) <= Len(all)
          /\ log = SubSeq(all, 1, Len(log))
          /\ \A i \in 1..(Len(log) - 1) : ~Rejected(log[i])
          /\ (log # <<>> /\ Rejected(log[Len(log)])) => astOut.err.kind # "nil"
          /\ astOut.err.kind = "nil" => log = all

RECURSIVE InputNodes(_)
\* The Input nodes of a script at every nesting level.
InputNodes(pipe) ==
    UNION { (IF pipe[j].type = "Input" THEN {pipe[j].toks} ELSE {})
              \cup UNION {InputNodes(pipe[j].pipes[i]) : i \in 1..Len(pipe[j].pipes)}
            : j \in 1..Len(pipe) }

\* C25 as stated: after a successful Transform every Input of the script, at
\* every nesting level, was handed to the hook.
C25_EveryInputVerified ==
    LoweredOk =>
      \A toks \in InputNodes(astIn) :
          \E i \in 1..Len(astOut.log) : astOut.log[i] = <<"input", toks>>

\* C25 witness: a fork in a multiplex branch behind an output; the hook was
\* called for input, output, multiplex fork, fork and step, and accepted all.
C25_Witness ==
    /\ LoweredOk
    /\ astOut.log = << <<"input", <<"x">>>>, <<"output", <<"o">>>>,
                       <<"fork", <<"multiplex">>>>, <<"fork", <<"f">>>>,
                       <<"step", <<"b">>>> >>

\* C26: when the hook rejected an element, Transform returns a ParserError
\* whose Pos is the token of that element.
C26_PositionAnnotated ==
    (Lowered /\ astOut.log # <<>> /\ Rejected(astOut.log[Len(astOut.log)])) =>
        LET call == astOut.log[Len(astOut.log)]
        IN  /\ astOut.err.kind = "ParserError"
            /\ astOut.err.pos \in astRej
            /\ \E i \in 1..Len(call[2]) : call[2][i] = astOut.err.pos

RECURSIVE HasEmpty(_)
\* The script contains a pipeline without steps, at any level.
HasEmpty(pipe) ==
    \/ pipe = <<>>
    \/ \E j \in 1..Len(pipe) : \E i \in 1..Len(pipe[j].pipes) : HasEmpty(pipe[j].pipes[i])

\* C27: Transform never succeeds on a script that contains an empty pipeline.
C27_EmptyRejected ==
    (Lowered /\ HasEmpty(astIn)) => astOut.err.kind # "nil"


-----------------------------------------------------------------------------
(* Script parser: validation and fragment stitching *)

Elems(seq) == {seq[n] : n \in 1..Len(seq)}

Parsed == psOut.done
ParsedOk == Parsed /\ psOut.err.kind = "nil"

\* The stitched sub-pipelines of segment i of the script, before validation.
SubPipelines(i) == parseParts(psIn[i].parts, 1, <<>>, <<>>)

\* Segments in front of segment i that the parser accepts.
AcceptedBefore(i) ==
    \A j \in 1..(i - 1) : psIn[j].kind \in {"words", "call"} /\ (j > 1 => Len(psIn[j].toks) = 1)

BadForkPipes(i) ==
    {p \in Elems(SubPipelines(i).pipes) : ~HasKey(p) \/ Len(p) = 1}

BadMultiplexPipes(i) ==
    {p \in Elems(SubPipelines(i).pipes) : HasKey(p)}

\* C28: in a successfully parsed script every sub-pipeline of a fork starts
\* with an input (its key) followed by at least one step, and no sub-pipeline
\* of a group behind another step starts with an input; a script with a
\* sub-pipeline breaking either rule is rejected with a ParserError at the
\* first token of such a sub-pipeline.
C28_SubPipelineValidation ==
    Parsed =>
      /\ ParsedOk =>
           \A i \in 1..Len(psOut.res) :
             /\ psOut.res[i].type = "Fork" =>
                  \A p \in Elems(psOut.res[i].pipes) : HasKey(p) /\ Len(p) >= 2
             /\ (psOut.res[i].type = "Pipelines" /\ i > 1) =>
                  \A p \in Elems(psOut.res[i].pipes) : ~HasKey(p)
      /\ \A i \in 1..Len(psIn) :
           (AcceptedBefore(i) /\ psIn[i].kind \in {"fork", "group"}
              /\ SubPipelines(i).err.kind = "nil") =>
             /\ (psIn[i].kind = "fork" /\ BadForkPipes(i) # {}) =>
                  /\ psOut.err.kind = "ParserError"
                  /\ psOut.err.pos \in {FirstToken(p) : p \in BadForkPipes(i)}
             /\ (psIn[i].kind = "group" /\ i > 1 /\ BadMultiplexPipes(i) # {}) =>
                  /\ psOut.err.kind = "ParserError"
                  /\ psOut.err.pos \in {FirstToken(p) : p \in BadMultiplexPipes(i)}

\* A fork is rejected for a sub-pipeline that is its key alone.
C28_Witness ==
    /\ Parsed
    /\ psIn[Len(psIn)].kind = "fork"
    /\ Len(psIn[Len(psIn)].parts) = 1
    /\ psOut.err = ParserError("k", "Forked pipeline must have at least one pipeline step")

MultipleOutputs == "Multiple sequential outputs are not allowed"

\* C29 (as the parser behaves): every output step of a successfully parsed
\* pipeline names one endpoint, and a script in which strings behind "->" name
\* several endpoints in one step is rejected with "Multiple sequential outputs
\* are not allowed" at the first of them.
C29_OneEndpointPerOutput ==
    Parsed =>
      /\ ParsedOk =>
           \A i \in 2..Len(psIn) : psIn[i].kind = "words" =>
              /\ Len(psIn[i].toks) = 1
              /\ psOut.res[i] = Output(psIn[i].toks[1])
      /\ \A i \in 2..Len(psIn) :
           (AcceptedBefore(i) /\ psIn[i].kind = "words" /\ Len(psIn[i].toks) > 1) =>
              psOut.err = ParserError(psIn[i].toks[1], MultipleOutputs)

\* "x -> o -> o p" is rejected at the second output.
C29_Witness ==
    /\ Parsed
    /\ Len(psIn) = 3
    /\ psIn[2].kind = "words"
    /\ psOut.err = ParserError("o", MultipleOutputs)

\* C29 (as stated): no successfully parsed pipeline has two Output steps
\* directly after one another.
C29_NoConsecutiveOutputs ==
    ParsedOk =>
      \A i \in 1..(Len(psOut.res) - 1) :
        ~(psOut.res[i].type = "Output" /\ psOut.res[i + 1].type = "Output")

\* What one sub-pipeline of a group contributes: its key and its own steps.
OwnKey(raw) == IF raw[1].kind = "words" THEN <<Input(raw[1].toks)>> ELSE <<>>
OwnSteps(raw) ==
    LET r == parsePipeline(raw, 1, <<>>).res
    IN  IF HasKey(r) THEN Tail(r) ELSE r

RECURSIVE Interleavings(_, _)
\* The step sequences that hold every fragment from part j on, in script
\* order, with the own steps of at most one pipeline of each group at the
\* group's place.
Interleavings(parts, j) ==
    IF j > Len(parts) THEN {<<>>}
    ELSE IF parts[j].frag
      THEN {parsePipeline(parts[j].pipes[1], 2, <<>>).res \o rest :
               rest \in Interleavings(parts, j + 1)}
    ELSE {own \o rest :
             own \in {<<>>} \cup {OwnSteps(raw) : raw \in Elems(parts[j].pipes)},
             rest \in Interleavings(parts, j + 1)}

FragmentsBefore(parts, j) ==
    IF j > 1 /\ parts[j - 1].frag THEN parsePipeline(parts[j - 1].pipes[1], 2, <<>>).res
    ELSE <<>>
FragmentsAfter(parts, j) ==
    IF j < Len(parts) /\ parts[j + 1].frag THEN parsePipeline(parts[j + 1].pipes[1], 2, <<>>).res
    ELSE <<>>

-----------------------------------------------------------------------------
(* Script parser: errors *)

TokensParsed == tkOut.done
TokensFailed == TokensParsed /\ tkOut.err.kind # "nil"

\* The place of the token the error is positioned at.
ErrPlace == CHOOSE k \in 1..(Len(tkIn) + 1) : Lit(k) = tkOut.err.pos

ValidationMessages ==
    {"Forked pipeline must start with a pipeline identifier (string)",
     "Forked pipeline must have at least one pipeline step",
     "Multiplexed pipeline cannot start with an identifier (string)",
     "Multiple sequential outputs are not allowed"}

\* The tokens are a script of the grammar (validation apart).
Grammatical(toks) == syntaxScript(toks).err.kind = "nil"

\* What may follow a beginning of a script to make a whole one: the rest of
\* a step, then closing brackets.
Closers ==
    UNION {[1..n -> {"CLOSE", "BRACKET_CLOSE", "PARAM_CLOSE"}] : n \in 0..MaxTokens}
Rests ==
    {<<>>, <<"STR">>, <<"STR", "PARAM_OPEN", "PARAM_CLOSE">>, <<"PARAM_OPEN", "PARAM_CLOSE">>,
     <<"PARAM_EQ", "STR">>, <<"STR", "PARAM_EQ", "STR">>,
     <<"NEXT", "STR", "PARAM_OPEN", "PARAM_CLOSE">>,
     <<"STR", "NEXT", "STR", "PARAM_OPEN", "PARAM_CLOSE">>}

\* The first k tokens of the script begin a script of the grammar; with the
\* EOF behind the script, they are one.
Viable(k) ==
    IF k > Len(tkIn) THEN Grammatical(tkIn)
    ELSE \E r \in Rests : \E c \in Closers :
            Grammatical(SubSeq(tkIn, 1, k) \o r \o c)

\* The script cut off behind the token at place k.
CutOff(k) == IF k > Len(tkIn) THEN tkIn ELSE SubSeq(tkIn, 1, k)

\* C31 (as the parser behaves): a failing Parse returns a nil pipeline with a
\* ParserError positioned at a token of the script or at the EOF behind it.
\* For a lexer or syntax error this is the token at which the script stopped
\* matching the grammar: the tokens before it begin a script of the grammar,
\* the tokens up to it do not, and the script cut off behind it fails in the
\* same way.  For a validation error the whole script matches the grammar and
\* the position is a string at the start of a pipeline or of an output.
C31_ErrorPosition ==
    TokensFailed =>
      /\ tkOut.res = <<>>
      /\ tkOut.err.kind = "ParserError"
      /\ \E k \in 1..(Len(tkIn) + 1) : Lit(k) = tkOut.err.pos
      /\ IF tkOut.err.msg \in ValidationMessages
           THEN /\ syntaxScript(tkIn).err.kind = "nil"
                /\ Tok(tkIn, ErrPlace) = "STR"
                /\ ErrPlace > 1 =>
                     Tok(tkIn, ErrPlace - 1) \in {"OPEN", "BRACKET_OPEN", "SEP", "NEXT"}
         ELSE /\ Viable(ErrPlace - 1)
              /\ ~Viable(ErrPlace)
              /\ parseTokens(CutOff(ErrPlace)).err = tkOut.err

\* "x->fork(){->xx}->out": the error is at the "->" behind "{".
C31_Witness ==
    /\ TokensFailed
    /\ Len(tkIn) = 11
    /\ tkOut.res = <<>>
    /\ tkOut.err = ParserError(Lit(7), ExpectedPipelineStepError)

\* C31 (as stated): a failing Parse returns a nil pipeline and a ParserError
\* at the token at which the script first stopped matching the grammar,
\* whatever the kind of the error.
C31_PosWhereMatchingStopped ==
    TokensFailed =>
      /\ tkOut.res = <<>>
      /\ tkOut.err.kind = "ParserError"
      /\ Viable(ErrPlace - 1)
      /\ ~Viable(ErrPlace)


-----------------------------------------------------------------------------
(* Errors of Sample calls *)

\* The errors of the calls the processor made to its sinks.
DownErrors == {<<"error", j>> : j \in {k \in 1..eOut.called : eOut.downs[k]}}

\* The error of the processor's own step, if it failed.
OwnErrors ==
    IF eOut.own = "err" /\ "NoProcess" \notin eFlags /\ eKind \in {"simple", "output", "mux"}
      THEN {OwnError} ELSE {}

LoggedErrors == {eOut.log[k][2] : k \in 1..Len(eOut.log)}

\* C32: DropErrorsProcessor.Sample passes the sample to its sink once and
\* returns nil, whatever the sink returned and whatever flags are set.
C32_DropErrors ==
    (eOut.done /\ eKind = "droperrors") =>
      /\ eOut.called = 1
      /\ eOut.ret = <<>>
      /\ LoggedErrors \subseteq DownErrors

\* The sink failed and no log flag is set: nil is returned and nothing logged.
C32_Witness ==
    /\ eOut.done
    /\ eKind = "droperrors"
    /\ eFlags = {}
    /\ eOut.downs[1]
    /\ eOut.ret = <<>>
    /\ eOut.log = <<>>

\* C33: when the own step of a processor or sink other than drop_errors
\* fails, or a call it made to a sink returned an error, the call returns an
\* error or has logged the error.
C33_NotSwallowed ==
    (eOut.done /\ eKind # "droperrors") =>
      \A e \in OwnErrors \cup DownErrors :
        \/ eOut.ret # <<>>
        \/ e \in LoggedErrors

\* An output with DropOutputErrors whose write failed: the error is logged,
\* the sample passed on and nil returned.
C33_Witness ==
    /\ eOut.done
    /\ eKind = "output"
    /\ eFlags = {"DropOutputErrors"}
    /\ eOut.own = "err"
    /\ eOut.ret = <<>>
    /\ eOut.called = 1
    /\ LoggedErrors = {OwnError}


-----------------------------------------------------------------------------
(* SpherePoints and strip *)

\* A sequence without the element at place i (counted from 0).
Without(sl, i) == [k \in 1..(Len(sl) - 1) |-> IF k > i THEN sl[k + 1] ELSE sl[k]]

\* C34: the header handed to Sample has the same field names in the same
\* order after the call as before it.
C34_HeaderImmutable ==
    spCall.done => spFields = spCall.before

\* C36: with a fixed radius (RadiusMetric < 0) a sample with at least one
\* metric yields NumPoints samples under the unchanged header at distance
\* Radius and nil, unless the sink failed; with RadiusMetric naming a metric
\* of the sample, the points are at the distance of its value and header and
\* values are passed on without it.
C36_RadiusChoice ==
    (spCall.done /\ spKind = "sphere" /\ Len(spCall.before) >= 1) =>
      /\ (spConf.RadiusMetric < 0 /\ spCall.ret # "sink error") =>
            /\ spCall.ret = "nil"
            /\ Len(spCall.out) = spConf.NumPoints
            /\ \A k \in 1..Len(spCall.out) :
                  /\ spCall.out[k].fields = spCall.before
                  /\ spCall.out[k].radius = spConf.Radius
      /\ spConf.RadiusMetric \in 0..(Len(spCall.vals) - 1) =>
            \A k \in 1..Len(spCall.out) :
               /\ spCall.out[k].radius = spCall.vals[spConf.RadiusMetric + 1]
               /\ spCall.out[k].fields = Without(spCall.before, spConf.RadiusMetric)
               /\ spCall.out[k].values = Without(spCall.vals, spConf.RadiusMetric)


\* C37: for num >= 0 the samples passed to the sink are exactly the first
\* min(n, num) of the n samples passed to the head step, unchanged and in
\* order; every later sample is dropped with a nil result, and never more
\* than num samples are passed on.
C37_HeadKeepsFirst ==
    hdNum >= 0 =>
      /\ hdOut = SubSeq(hdIn, 1, IF Len(hdIn) < hdNum THEN Len(hdIn) ELSE hdNum)
      /\ \A k \in (hdNum + 1)..Len(hdIn) : hdRet[k] = "nil"
      /\ Len(hdOut) <= hdNum

C37_Witness ==
    /\ hdNum = 2
    /\ Len(hdIn) = 4
    /\ hdIn[1] # hdIn[2]
    /\ hdOut = <<hdIn[1], hdIn[2]>>
    /\ hdRet[2] = "sink error"
    /\ hdRet[3] = "nil"


\* C35: CloseSink(nil) has returned only when the sink's Close has returned;
\* CloseSink(wg) has registered with wg when it returns, so that a wg.Wait()
\* started after its return returns only when the sink's Close has finished;
\* without a sink nothing is closed and the counter of wg stays what the other
\* tasks make of it.
C35_CloseSink ==
    /\ (csSink /\ ~csWg /\ csPc = "returned") => csClose = "returned"
    /\ (csSink /\ csWg /\ csPc = "returned") =>
          /\ csCount = csOthers + (IF csGo = "done" THEN 0 ELSE 1)
          /\ (csWait = "returned" /\ csWaitAfter) => csClose = "returned"
    /\ ~csSink => (csClose = "no" /\ csGo = "none" /\ csCount = csOthers)

\* Both ways of closing have run to their end, and a Wait started after the
\* return of CloseSink(wg) has returned.
C35_Witness ==
    /\ csSink /\ csWg
    /\ csPc = "returned"
    /\ csWait = "returned" /\ csWaitAfter
    /\ csClose = "returned"
    /\ csGo = "done"


-----------------------------------------------------------------------------
(* BufferedSample with several callers *)

\* C38: a WaitDone call returns nil only when done has been set by NotifyDone
\* and the stream has no error; done is read and written only by the holder
\* of the sample's lock; once set it stays set, and a further NotifyDone call
\* changes neither done nor what any WaitDone call returns.
C38_DoneGuarded ==
    /\ [](\A c \in Waiters \cup Notifiers :
             bsPc[c] \in {"wd_loop", "wd_final", "nd_set"} => bsLock = c)
    /\ [][/\ \A w \in Waiters :
                (bsRet[w] = "none" /\ bsRet'[w] = "nil") =>
                    (bsDone /\ bsSet >= 1 /\ ~HasErrorValue(bsErr))
          /\ bsDone' # bsDone => (bsLock \in Notifiers /\ bsPc[bsLock] = "nd_set")
          /\ bsDone => bsDone'
          /\ (bsDone /\ bsSet' # bsSet) =>
                (bsDone' /\ bsRet' = bsRet
                   /\ \A w \in Waiters : bsPc'[w] = bsPc[w])]_vars

\* C38 witness: NotifyDone was called twice; one WaitDone call returned nil,
\* another the stream's error.
C38_Witness ==
    /\ bsSet = 2
    /\ bsRet[1] = "nil"
    /\ bsRet[2] = "E1"

\* C39: on a stream without error and with a NotifyDone call being made, every
\* WaitDone call that has started eventually returns nil, whether it started
\* before or after done was set.
C39_NoLostWakeup ==
    \A w \in Waiters :
        (bsPc[w] # "idle") ~> (bsPc[w] = "returned" /\ bsRet[w] = "nil")

\* C39 witness: a call that started before NotifyDone and one that started
\* after it have both returned nil.
C39_Witness ==
    /\ bsHow[1] = "early" /\ bsRet[1] = "nil"
    /\ bsHow[2] = "late" /\ bsRet[2] = "nil"


-----------------------------------------------------------------------------
(* CSV reader on any input *)

\* C40: whatever the input, ReadHeader and ReadSample return a result or an
\* error; neither accesses an index outside the list of parsed fields.
C40_ReadTotal ==
    rd.err # "panic"

=============================================================================
